---- MODULE Spec2Model ----
(***************************************************************************)
(* Model of the encryption gateway: the instance scheduler with its health *)
(* monitor (scheduler/mod.rs), the write-behind cache (cache/mod.rs), the  *)
(* fallback ("test") instance manager (test_instance/mod.rs) and the       *)
(* orchestration service (service/mod.rs).                                 *)
(*                                                                         *)
(* An instance is identified by its position in the registry               *)
(* (config.crud_api.instances); the health table is the parallel vector of *)
(* statuses, as in Vec<(CrudApiInstance, InstanceHealthStatus)>.           *)
(***************************************************************************)
EXTENDS Integers, Sequences, FiniteSets, TLC

VARIABLES
    cfg,                   \* AppConfig: strategy, instances (their types), service role
    instance_health,       \* CrudApiScheduler.instance_health: status per instance
    load_balance_counter,  \* CrudApiScheduler.load_balance_counter
    now,                   \* the wall clock, in seconds
    test_instance,         \* TestInstanceManager.test_instance: the fallback slot
    check_pc,              \* where periodic_check stands: "idle" or "marking"
    health_check,          \* where perform_health_check stands, and its results
    create_pc,             \* where each caller of create_test_instance stands
    cache,                 \* the bucket files of data/cache
    resp,                  \* what the last call returned to its caller
    cache_writers,         \* where each caller of write_cache stands
    sweep                  \* where clean_expired_cache stands

vars == <<cfg, instance_health, load_balance_counter, now, test_instance, check_pc,
          health_check, create_pc, cache, resp, cache_writers, sweep>>

\* most concurrent callers of create_test_instance, and of write_cache
MaxCallers == 2

Callers == 1..MaxCallers

\* no call of create_test_instance is under way
NoCallers == [p \in Callers |-> "idle"]

\* no sweep is under way: where clean_expired_cache stands, the time it read
\* at its start, and the files of its listing it has yet to look at
NoSweep == [pc |-> "idle", current_timestamp |-> 0, entries |-> {}]

\* no call of write_cache is under way: where each caller stands, the bucket
\* file each has open, the files whose last line has no line end yet, the
\* number of calls that returned Ok, and the entry each caller has built
NoWriters == [pc |-> [p \in Callers |-> "idle"], file |-> [p \in Callers |-> 0],
              unterminated |-> {}, returned |-> 0,
              cache_entry |-> [p \in Callers |-> <<>>]]

\* the health monitor between two ticks, before its first tick
NoHealthCheck == [pc |-> "idle", before |-> <<>>, new_health_status |-> <<>>, applied |-> 0]

(***************************************************************************)
(* Bounds of the model.                                                    *)
(***************************************************************************)
\* most instances in a registry
MaxInst == 2
\* selections made under LoadBalance before the model stops selecting
MaxCounter == 5
\* most CRUD_API_INSTANCE_<n>_* groups set in the environment
MaxEnvInst == 0
\* most entries in the cache before the model stops serving requests
MaxCacheEntries == 1
\* most entries in the cache before the model of the cache alone stops writing
MaxWrites == 3
\* most records in the cache before the concurrent writers stop writing
MaxRecords == 4
\* most entries in the cache before the model of the cache under requests
\* and replays stops serving requests
MaxStored == 2
\* most requests in a batch
MaxBatch == 2

(***************************************************************************)
(* Configuration (config/mod.rs).                                          *)
(***************************************************************************)
SchedulerStrategy == {"Single", "ReadWriteSplit", "LoadBalance"}

InstanceTypes == {"read", "write", "mixed"}

ServiceRoles == {"encrypt", "decrypt", "mixed"}

InstanceHealthStatus == {"Healthy", "Unhealthy", "Unknown"}

\* the registries of at most n instances, each of a valid type
Registries(n) == UNION {[1..k -> InstanceTypes] : k \in 1..n}

\* AppConfig::from_env: the registry and strategy that CRUD_API_BACKEND_TYPE
\* selects.  env_instances are the instance_type values of the
\* CRUD_API_INSTANCE_<n>_* groups, read only under load_balance.
from_env(backend_type, env_instances, role) ==
    CASE backend_type = "single" ->
            [strategy |-> "Single", instances |-> <<"write", "read">>, role |-> role]
      [] backend_type = "load_balance" ->
            [strategy |-> "LoadBalance",
             instances |-> IF env_instances = <<>> THEN <<"mixed">> ELSE env_instances,
             role |-> role]
      [] OTHER ->
            [strategy |-> "ReadWriteSplit", instances |-> <<"write", "read">>, role |-> role]

\* AppConfig::validate
validate_SingleAtLeastOne(c) ==
    /\ c.role \in ServiceRoles
    /\ c.instances # <<>>
    /\ \A i \in 1..Len(c.instances) : c.instances[i] \in InstanceTypes
    /\ c.strategy = "ReadWriteSplit" =>
            /\ \E i \in 1..Len(c.instances) : c.instances[i] \in {"write", "mixed"}
            /\ \E i \in 1..Len(c.instances) : c.instances[i] \in {"read", "mixed"}

validate(c) ==
    /\ c.role \in ServiceRoles
    /\ c.instances # <<>>
    /\ \A i \in 1..Len(c.instances) : c.instances[i] \in InstanceTypes
    /\ CASE c.strategy = "ReadWriteSplit" ->
                /\ \E i \in 1..Len(c.instances) : c.instances[i] \in {"write", "mixed"}
                /\ \E i \in 1..Len(c.instances) : c.instances[i] \in {"read", "mixed"}
         [] c.strategy = "LoadBalance" -> Len(c.instances) >= 1
         [] c.strategy = "Single" -> Len(c.instances) = 1

\* what the environment may hold
BackendTypes == {"single", "read_write_split", "load_balance", "unset"}

EnvInstances == UNION {[1..k -> InstanceTypes \cup {"other"}] : k \in 0..MaxEnvInst}

EnvRoles == ServiceRoles \cup {"other"}

\* main: the configurations a serving process runs with
ServedConfigs ==
    {c \in {from_env(b, e, r) : b \in BackendTypes, e \in EnvInstances, r \in EnvRoles} :
        validate(c)}

NumInst == Len(cfg.instances)

(***************************************************************************)
(* What a call leaves to its caller.  One shape for every operation.       *)
(***************************************************************************)
\* an encrypted_data string: base64 of nonce and sealed text, or something else
NoCt == [form |-> "none", pt |-> "", key |-> "", nonce |-> ""]

NoResp ==
    [op |-> "none", ok |-> TRUE, err |-> "", is_write |-> FALSE, instance |-> 0,
     probes |-> <<>>, request |-> <<>>, encrypted_data |-> NoCt, data |-> "",
     resource_id |-> <<>>, cache_warned |-> FALSE, record |-> <<>>, entries |-> <<>>,
     kept |-> {}, removed |-> {}, calls |-> <<>>, responses |-> <<>>,
     results |-> <<>>, found |-> <<>>, backend |-> <<>>]

SelectResp(w, r) ==
    [NoResp EXCEPT !.op = "select_instance", !.ok = r.ok, !.is_write = w,
                   !.instance = r.instance]

(***************************************************************************)
(* Health probes (scheduler/mod.rs, perform_health_check).                 *)
(* A probe is what GET <url>/health did: the send failed (transport error  *)
(* or timeout), or it returned a status code and a body.  A body is either *)
(* no JSON at all, or a JSON object whose member "status" is absent or a   *)
(* string.                                                                 *)
(***************************************************************************)
NotJson == [json |-> FALSE, status_t |-> "absent", status_v |-> ""]

StatusBody(v) == [json |-> TRUE, status_t |-> "string", status_v |-> v]

HealthBodies == {NotJson, StatusBody("down"), StatusBody("ok")}

ProbeOutcomes ==
    { [sent |-> FALSE, code |-> 0, body |-> NotJson] }
    \cup { [sent |-> TRUE, code |-> 503, body |-> StatusBody("ok")] }
    \cup { [sent |-> TRUE, code |-> 200, body |-> b] : b \in HealthBodies }

\* reqwest::StatusCode::is_success
is_success(code) == code >= 200 /\ code < 300

\* response.json::<HealthCheckResponse>(): the member status must be a string
HealthCheckResponse(body) ==
    IF body.json /\ body.status_t = "string"
    THEN [ok |-> TRUE, status |-> body.status_v]
    ELSE [ok |-> FALSE, status |-> ""]

\* the status one probe yields (the match of lines 91-109)
ProbeStatus_TrustsStatusCode(out) ==
    IF out.sent /\ is_success(out.code) THEN "Healthy" ELSE "Unhealthy"

ProbeStatus(out) ==
    IF out.sent
    THEN IF is_success(out.code)
         THEN LET r == HealthCheckResponse(out.body)
              IN  IF r.ok
                  THEN IF r.status = "ok" THEN "Healthy" ELSE "Unhealthy"
                  ELSE "Unhealthy"
         ELSE "Unhealthy"
    ELSE "Unhealthy"

\* one tick: every instance is probed, then the table takes the new statuses
perform_health_check_NoRecovery(outs) ==
    /\ instance_health' = [i \in 1..NumInst |->
                              IF instance_health[i] = "Unhealthy"
                              THEN "Unhealthy" ELSE ProbeStatus(outs[i])]
    /\ resp' = [NoResp EXCEPT !.op = "perform_health_check", !.probes = outs]
    /\ UNCHANGED <<cfg, load_balance_counter, now, test_instance, check_pc, health_check, create_pc, cache, cache_writers, sweep>>

perform_health_check(outs) ==
    /\ instance_health' = [i \in 1..NumInst |-> ProbeStatus(outs[i])]
    /\ resp' = [NoResp EXCEPT !.op = "perform_health_check", !.probes = outs]
    /\ UNCHANGED <<cfg, load_balance_counter, now, test_instance, check_pc, health_check, create_pc, cache, cache_writers, sweep>>

(***************************************************************************)
(* Selection (scheduler/mod.rs).                                           *)
(***************************************************************************)
Registry == [i \in 1..NumInst |-> i]

\* lines 130-140: Healthy, and of the asked type or mixed, in registry order
get_healthy_instances_NotUnhealthy(instance_type) ==
    LET Keep(i) == /\ instance_health[i] # "Unhealthy"
                   /\ (cfg.instances[i] = instance_type \/ cfg.instances[i] = "mixed")
    IN  SelectSeq(Registry, Keep)

get_healthy_instances_ExactType(instance_type) ==
    LET Keep(i) == /\ instance_health[i] = "Healthy"
                   /\ cfg.instances[i] = instance_type
    IN  SelectSeq(Registry, Keep)

get_healthy_instances(instance_type) ==
    LET Keep(i) == /\ instance_health[i] = "Healthy"
                   /\ (cfg.instances[i] = instance_type \/ cfg.instances[i] = "mixed")
    IN  SelectSeq(Registry, Keep)

\* Result<CrudApiInstance>, with the counter the call leaves behind
SelectErr(counter) == [ok |-> FALSE, instance |-> 0, counter |-> counter]

SelectOk(instance, counter) == [ok |-> TRUE, instance |-> instance, counter |-> counter]

\* healthy.first().cloned().ok_or_else(..)
first_or_err_DefaultsToFirst(counter, healthy) ==
    IF healthy = <<>> THEN SelectOk(1, counter) ELSE SelectOk(Head(healthy), counter)

first_or_err(counter, healthy) ==
    IF healthy = <<>> THEN SelectErr(counter) ELSE SelectOk(Head(healthy), counter)

\* lines 172-181: index = counter % len, counter = counter + 1
round_robin_NoIncrement(counter, healthy_instances) ==
    IF healthy_instances = <<>>
    THEN SelectErr(counter)
    ELSE SelectOk(healthy_instances[(counter % Len(healthy_instances)) + 1], counter)

round_robin(counter, healthy_instances) ==
    IF healthy_instances = <<>>
    THEN SelectErr(counter)
    ELSE SelectOk(healthy_instances[(counter % Len(healthy_instances)) + 1], counter + 1)

\* select_instance, reading the counter it is given
select_instance_SplitIgnoresDirection(counter, is_write_operation) ==
    CASE cfg.strategy = "Single" ->
            first_or_err(counter, get_healthy_instances("mixed"))
      [] cfg.strategy = "ReadWriteSplit" ->
            first_or_err(counter, get_healthy_instances("write"))
      [] cfg.strategy = "LoadBalance" ->
            round_robin(counter,
                        get_healthy_instances(IF is_write_operation THEN "write" ELSE "read"))

select_instance_SingleByDirection(counter, is_write_operation) ==
    CASE cfg.strategy = "Single" ->
            first_or_err(counter,
                         get_healthy_instances(IF is_write_operation THEN "write" ELSE "read"))
      [] cfg.strategy = "ReadWriteSplit" ->
            IF is_write_operation
            THEN first_or_err(counter, get_healthy_instances("write"))
            ELSE first_or_err(counter, get_healthy_instances("read"))
      [] cfg.strategy = "LoadBalance" ->
            round_robin(counter,
                        get_healthy_instances(IF is_write_operation THEN "write" ELSE "read"))

select_instance(counter, is_write_operation) ==
    CASE cfg.strategy = "Single" ->
            first_or_err(counter, get_healthy_instances("mixed"))
      [] cfg.strategy = "ReadWriteSplit" ->
            IF is_write_operation
            THEN first_or_err(counter, get_healthy_instances("write"))
            ELSE first_or_err(counter, get_healthy_instances("read"))
      [] cfg.strategy = "LoadBalance" ->
            LET instance_type == IF is_write_operation THEN "write" ELSE "read"
                healthy_instances == get_healthy_instances(instance_type)
            IN  round_robin(counter, healthy_instances)

\* a selection that would carry the counter past the model's bound is not made
CounterRoom(is_write_operation) ==
    select_instance(load_balance_counter, is_write_operation).counter <= MaxCounter

\* a caller of select_instance that only keeps the result
SelectInstance(w) ==
    /\ CounterRoom(w)
    /\ LET r == select_instance(load_balance_counter, w)
       IN  /\ load_balance_counter' = r.counter
           /\ resp' = SelectResp(w, r)
    /\ UNCHANGED <<cfg, instance_health, now, test_instance, check_pc, health_check, create_pc, cache, cache_writers, sweep>>

(***************************************************************************)
(* The cipher (crypto/mod.rs).  AES-256-GCM under a key derived from the   *)
(* password is an external primitive: an encrypted_data string is modelled *)
(* by what it was made from.  "sealed": base64 of a nonce and the text     *)
(* sealed under a key; "not_base64": a string that does not decode;        *)
(* "short": base64 of fewer than 12 bytes.                                 *)
(***************************************************************************)
Sealed(data, key, nonce) == [form |-> "sealed", pt |-> data, key |-> key, nonce |-> nonce]

NotBase64 == [form |-> "not_base64", pt |-> "", key |-> "", nonce |-> ""]

Short == [form |-> "short", pt |-> "", key |-> "", nonce |-> ""]

\* generate_key: HKDF-SHA256 of the password under the configured salt
generate_key(password) == password

CipherOk(value) == [ok |-> TRUE, panic |-> FALSE, value |-> value]

CipherErr == [ok |-> FALSE, panic |-> FALSE, value |-> ""]

CipherPanic == [ok |-> FALSE, panic |-> TRUE, value |-> ""]

\* EncryptionUtils::encrypt: rng is the nonce getrandom gave, or its failure
crypto_encrypt(data, password, rng) ==
    IF rng = "rng_error"
    THEN [ok |-> FALSE, value |-> NoCt]
    ELSE [ok |-> TRUE, value |-> Sealed(data, generate_key(password), rng)]

\* EncryptionUtils::decrypt: decode, split_at(12) (panics on a shorter input),
\* open under the key of the password
crypto_decrypt(encrypted_data, password) ==
    CASE encrypted_data.form = "sealed" ->
            IF encrypted_data.key = generate_key(password)
            THEN CipherOk(encrypted_data.pt)
            ELSE CipherErr
      [] encrypted_data.form = "short" -> CipherPanic
      [] OTHER -> CipherErr

(***************************************************************************)
(* The write-behind cache (cache/mod.rs): a directory of bucket files, a   *)
(* function from the bucket number to the file's lines and its             *)
(* modification time.                                                      *)
(***************************************************************************)
update_interval == 3600

retention_time == 86400

NoFiles == [b \in {} |-> 0]

EncryptCacheData(request, encrypted_data) ==
    [kind |-> "Encrypt", data |-> request.data, password |-> request.password,
     resource_type |-> request.resource_type, encrypted_data |-> encrypted_data,
     resource_id |-> <<>>, decrypted_data |-> ""]

DecryptCacheData(request, encrypted_data, data) ==
    [kind |-> "Decrypt", data |-> "", password |-> request.password,
     resource_type |-> request.resource_type, encrypted_data |-> encrypted_data,
     resource_id |-> request.resource_id, decrypted_data |-> data]

\* serde_json::to_string of a CacheEntry: one JSON line, the payload under
\* the name of its variant
to_string(entry) ==
    [timestamp |-> entry.timestamp,
     tag |-> entry.data_type.kind,
     body |-> IF entry.data_type.kind = "Encrypt"
              THEN [data |-> entry.data_type.data,
                    password |-> entry.data_type.password,
                    resource_type |-> entry.data_type.resource_type,
                    encrypted_data |-> entry.data_type.encrypted_data,
                    resource_id |-> <<>>, decrypted_data |-> ""]
              ELSE [data |-> "",
                    password |-> entry.data_type.password,
                    resource_type |-> entry.data_type.resource_type,
                    encrypted_data |-> entry.data_type.encrypted_data,
                    resource_id |-> entry.data_type.resource_id,
                    decrypted_data |-> entry.data_type.decrypted_data]]

\* the text of a line of a bucket file: one JSON document alone on the line
\* (what to_string gives), or the documents that ran together on it, none
\* for a line with nothing on it
Joined(docs) == [joined |-> docs]

\* line.trim().is_empty()
is_empty(line) == line = Joined(<<>>)

\* serde_json::from_str::<CacheEntry> of a line: the entry of a line that
\* holds one document of a known variant, an Err for any other line
from_str(line) ==
    IF "tag" \in DOMAIN line /\ line.tag \in {"Encrypt", "Decrypt"}
    THEN [ok |-> TRUE,
          entry |-> [timestamp |-> line.timestamp,
                     data_type |-> [kind |-> line.tag, data |-> line.body.data,
                                    password |-> line.body.password,
                                    resource_type |-> line.body.resource_type,
                                    encrypted_data |-> line.body.encrypted_data,
                                    resource_id |-> line.body.resource_id,
                                    decrypted_data |-> line.body.decrypted_data]]]
    ELSE [ok |-> FALSE, entry |-> <<>>]

\* get_current_cache_file: the bucket of a time
get_current_cache_file(t) == t \div update_interval

\* write_cache at time t: one line appended to the bucket file of t, or, when
\* the file cannot be opened or written (io_ok false), nothing and an Err
\* that every caller only logs
write_cache_NeverFlushed(files, t, data_type, io_ok) == files

write_cache_Truncates(files, t, data_type, io_ok) ==
    LET entry == to_string([timestamp |-> t, data_type |-> data_type])
        b == get_current_cache_file(t)
    IN  IF ~io_ok THEN files
        ELSE [x \in DOMAIN files \cup {b} |->
                 IF x = b THEN [lines |-> <<entry>>, mtime |-> t] ELSE files[x]]

write_cache_Twice(files, t, data_type, io_ok) ==
    LET entry == to_string([timestamp |-> t, data_type |-> data_type])
        b == get_current_cache_file(t)
    IN  IF ~io_ok THEN files
        ELSE IF b \in DOMAIN files
             THEN [files EXCEPT ![b] = [lines |-> @.lines \o <<entry, entry>>, mtime |-> t]]
             ELSE [x \in DOMAIN files \cup {b} |->
                     IF x = b THEN [lines |-> <<entry, entry>>, mtime |-> t] ELSE files[x]]

write_cache(files, t, data_type, io_ok) ==
    LET entry == to_string([timestamp |-> t, data_type |-> data_type])
        b == get_current_cache_file(t)
    IN  IF ~io_ok THEN files
        ELSE IF b \in DOMAIN files
             THEN [files EXCEPT ![b] = [lines |-> Append(@.lines, entry), mtime |-> t]]
             ELSE [x \in DOMAIN files \cup {b} |->
                     IF x = b THEN [lines |-> <<entry>>, mtime |-> t] ELSE files[x]]

\* BufWriter::new(file): a buffer of 8 KiB.  writeln! hands it the record and
\* then the line end; a record that fits stays in the buffer with its line
\* end and flush() writes both in one write to the file, while a record of
\* 8 KiB or more goes to the file at once, in a write of its own, and flush()
\* writes the line end in a second one
exceeds_capacity(data_type) == data_type.data = "document of 8 KiB"

\* one write to a file opened with append(true): the text goes to the end
\* of the file as it is at that moment, after the last line when that line
\* has no line end yet
append(files, b, t, docs, unterminated) ==
    LET lines == IF b \in DOMAIN files THEN files[b].lines ELSE <<>>
        last == lines[Len(lines)]
        joined == IF unterminated
                  THEN [lines EXCEPT ![Len(lines)] =
                           Joined((IF "joined" \in DOMAIN last THEN last.joined ELSE <<last>>)
                                      \o docs)]
                  ELSE lines \o docs
    IN  [x \in DOMAIN files \cup {b} |->
            IF x = b THEN [lines |-> joined, mtime |-> t] ELSE files[x]]

\* the line end goes to the end of the file: it ends the last line, or is
\* a line with nothing on it when the last line is ended already
append_line_end(files, b, t, unterminated) ==
    IF unterminated THEN [files EXCEPT ![b] = [lines |-> @.lines, mtime |-> t]]
    ELSE [files EXCEPT ![b] = [lines |-> Append(@.lines, Joined(<<>>)), mtime |-> t]]

RECURSIVE SumLines(_, _)
SumLines(files, B) ==
    IF B = {} THEN 0
    ELSE LET b == CHOOSE x \in B : TRUE
         IN  Len(files[b].lines) + SumLines(files, B \ {b})

\* the number of entries in all bucket files
CacheCount(files) == SumLines(files, DOMAIN files)

\* the orders in which read_dir may list the files
Orders(S) ==
    {order \in [1..Cardinality(S) -> S] :
        \A i, j \in 1..Cardinality(S) : i # j => order[i] # order[j]}

\* the lines of one file that read_all_cache keeps: an empty line is passed
\* over, a line that does not parse is warned about and passed over
ParsedLines(lines) ==
    LET kept == SelectSeq(lines, LAMBDA line : ~is_empty(line) /\ from_str(line).ok)
    IN  [i \in 1..Len(kept) |-> from_str(kept[i]).entry]

\* the lines of the files, parsed, file after file
RECURSIVE ReadFiles(_, _)
ReadFiles(files, order) ==
    IF order = <<>> THEN <<>>
    ELSE ParsedLines(files[Head(order)].lines) \o ReadFiles(files, Tail(order))

\* read_all_cache with read_dir listing the files in some order: the entries
\* of all files, or an Err when the directory or a file cannot be read
read_all_cache_AbortsOnBadLine(files, order, io_ok) ==
    IF ~io_ok \/ \E b \in DOMAIN files : \E i \in 1..Len(files[b].lines) :
                    ~from_str(files[b].lines[i]).ok
    THEN [ok |-> FALSE, entries |-> <<>>]
    ELSE [ok |-> TRUE, entries |-> ReadFiles(files, order)]

read_all_cache_FirstFileOnly(files, order, io_ok) ==
    IF ~io_ok THEN [ok |-> FALSE, entries |-> <<>>]
    ELSE [ok |-> TRUE,
          entries |-> IF order = <<>> THEN <<>> ELSE ReadFiles(files, <<Head(order)>>)]

read_all_cache(files, order, io_ok) ==
    IF ~io_ok THEN [ok |-> FALSE, entries |-> <<>>]
    ELSE [ok |-> TRUE, entries |-> ReadFiles(files, order)]

\* the files a sweep at time t finds expired
IsExpired(files, t, b) == t - files[b].mtime > retention_time

\* clean_expired_cache at time t: the files older than the retention window
\* go, but for those in kept: the files whose removal failed (which is only
\* logged) and those the sweep did not reach because a file system error
\* ended it
clean_expired_cache_AtWindow(files, t, kept) ==
    [b \in {x \in DOMAIN files : t - files[x].mtime < retention_time \/ x \in kept}
        |-> files[b]]

clean_expired_cache(files, t, kept) ==
    [b \in {x \in DOMAIN files : ~IsExpired(files, t, x) \/ x \in kept} |-> files[b]]

(***************************************************************************)
(* The fallback instance manager (test_instance/mod.rs).  The slot is      *)
(* Option<TestInstanceConfig>: <<>> or a one-element sequence.             *)
(***************************************************************************)
TestInstanceConfig(created_at, expired_at, state) ==
    [id |-> "test-instance-01", url |-> "http://localhost:8001", db_prefix |-> "test_",
     created_at |-> created_at, expired_at |-> expired_at, state |-> state]

\* create_test_instance at time t: the slot it leaves
create_test_instance_AlwaysNew(slot, t) ==
    <<TestInstanceConfig(t, t + 172800, "Created")>>

create_test_instance_Resurrects(slot, t) ==
    IF slot # <<>> /\ slot[1].state = "Created" /\ t < slot[1].expired_at
    THEN slot
    ELSE IF slot # <<>> /\ slot[1].state = "Expired"
    THEN <<[slot[1] EXCEPT !.state = "Created", !.expired_at = t + 172800]>>
    ELSE <<TestInstanceConfig(t, t + 172800, "Created")>>

create_test_instance(slot, t) ==
    IF slot # <<>> /\ slot[1].state = "Created" /\ t < slot[1].expired_at
    THEN slot
    ELSE <<TestInstanceConfig(t, t + 172800, "Created")>>

\* import_cache_data at time t: the slot it leaves (it creates an instance when
\* none is Created); reading the cache changes nothing
import_cache_data(slot, t) ==
    IF slot # <<>> /\ slot[1].state = "Created"
    THEN slot
    ELSE create_test_instance(slot, t)

(***************************************************************************)
(* The backend calls of the orchestration service (service/mod.rs).  A     *)
(* call is what the POST or GET did: the send failed, or it returned a     *)
(* status code and a body.  The body is no JSON, or a JSON object that is  *)
(* a GenericResponse (success and message present) or not, and whose       *)
(* data.id (POST) or data.encrypted_data (GET) is absent or a string.      *)
(***************************************************************************)
Data == {"secret", "memo"}

Passwords == {"pw1234567890", "pw2"}

\* the password of an encrypt request only selects the key
EncryptRequests == [data : Data, password : {"pw1234567890"}, resource_type : {"notes"}]

\* what a backend has stored under a resource id
StoredCt == Sealed("memo", generate_key("pw1234567890"), "n1")

DecryptRequests ==
    [encrypted_data : {Sealed("secret", generate_key("pw1234567890"), "n1"), NotBase64, Short},
     password : Passwords, resource_type : {"notes"}, resource_id : {<<>>, <<"r1">>}]

RngOutcomes == {"n1", "rng_error"}

CrudBody(json, envelope, member_t, member) ==
    [json |-> json, envelope |-> envelope, member_t |-> member_t, member |-> member]

PostBodies ==
    { CrudBody(FALSE, FALSE, "absent", ""), CrudBody(TRUE, FALSE, "string", "r1"),
      CrudBody(TRUE, TRUE, "absent", ""), CrudBody(TRUE, TRUE, "string", "r1") }

GetBodies ==
    { CrudBody(FALSE, FALSE, "absent", NoCt), CrudBody(TRUE, TRUE, "absent", NoCt),
      CrudBody(TRUE, TRUE, "string", StoredCt) }

CallOutcomes(bodies, no_body) ==
    { [sent |-> FALSE, code |-> 0, body |-> no_body],
      [sent |-> TRUE, code |-> 500, body |-> no_body],
      [sent |-> TRUE, code |-> 304, body |-> no_body] }
    \cup { [sent |-> TRUE, code |-> 200, body |-> b] : b \in bodies }

PostOutcomes == CallOutcomes(PostBodies, CrudBody(FALSE, FALSE, "absent", ""))

GetOutcomes == CallOutcomes(GetBodies, CrudBody(FALSE, FALSE, "absent", NoCt))

\* send().await.and_then(|resp| resp.error_for_status()): Err when the send
\* failed or the status is a client or server error
call_ok(out) == out.sent /\ ~(out.code >= 400 /\ out.code < 600)

\* response.json::<GenericResponse<Value>>()
GenericResponse(body) == body.json /\ body.envelope

EncryptOk(request, encrypted_data, resource_id) ==
    [NoResp EXCEPT !.op = "encrypt", !.request = request,
                   !.encrypted_data = encrypted_data, !.resource_id = resource_id]

DecryptOk(request, data, resource_id) ==
    [NoResp EXCEPT !.op = "decrypt", !.request = request, !.data = data,
                   !.resource_id = resource_id]

Failed(op, request, err) ==
    [NoResp EXCEPT !.op = op, !.request = request, !.ok = FALSE, !.err = err]

\* a response of a call that wrote the cache: a failed write is logged by the
\* caller (warn!) and changes nothing else
Warned_Escalates(response, io_ok) ==
    IF io_ok THEN response ELSE Failed(response.op, response.request, "cache")

Warned(response, io_ok) == [response EXCEPT !.cache_warned = ~io_ok]

\* the model serves a request only while the cache and the counter have room
Room(is_write_operation) ==
    /\ CacheCount(cache) < MaxCacheEntries
    /\ CounterRoom(is_write_operation)

\* the role check that opens encrypt, decrypt, batch_encrypt and batch_decrypt
role_permits_SameCheck(operation) == cfg.role = "encrypt" \/ cfg.role = "mixed"

role_permits(operation) ==
    IF operation = "encrypt"
    THEN cfg.role = "encrypt" \/ cfg.role = "mixed"
    ELSE cfg.role = "decrypt" \/ cfg.role = "mixed"

\* what the handlers of the service read and write besides the response:
\* the scheduler's counter, the fallback slot and the cache files
Svc(counter, slot, files) ==
    [load_balance_counter |-> counter, test_instance |-> slot, cache |-> files]

\* a handler's return: the state it leaves and its response; calls lists the
\* operations it performed, in order
Return(st, response, calls) == [st |-> st, resp |-> [response EXCEPT !.calls = calls]]

\* the Ok(response) arm of the POST (lines 161-175): what encrypt returns
encrypt_posted(request, encrypted_data, post) ==
    IF GenericResponse(post.body)
    THEN EncryptOk(request, encrypted_data,
                   IF post.body.member_t = "string" THEN <<post.body.member>> ELSE <<>>)
    ELSE Failed("encrypt", request, "json")

\* a return of a handler that called the backend: whether the call was sent
\* and the status code that came back
Called(response, out) ==
    [response EXCEPT !.backend = <<[sent |-> out.sent, code |-> out.code]>>]

\* EncryptionService::encrypt at time now, from state st
encrypt(st, request, rng, post, io_ok) ==
    IF ~role_permits("encrypt")
    THEN Return(st, Failed("encrypt", request, "role"), <<>>)
    ELSE LET e == crypto_encrypt(request.data, request.password, rng)
         IN  IF ~e.ok
             THEN Return(st, Failed("encrypt", request, "cipher"), <<"cipher">>)
             ELSE LET encrypt_cache_data == EncryptCacheData(request, e.value)
                      sel == select_instance(st.load_balance_counter, TRUE)
                      written == write_cache(st.cache, now, encrypt_cache_data, io_ok)
                  IN  IF sel.ok
                      THEN Return(Svc(sel.counter, st.test_instance, written),
                                  Called(Warned(IF call_ok(post)
                                                THEN encrypt_posted(request, e.value, post)
                                                ELSE EncryptOk(request, e.value, <<>>),
                                                io_ok),
                                         post),
                                  <<"cipher", "select_instance", "post", "write_cache">>)
                      ELSE Return(Svc(sel.counter,
                                      import_cache_data(
                                          create_test_instance(st.test_instance, now), now),
                                      written),
                                  Warned(EncryptOk(request, e.value, <<>>), io_ok),
                                  <<"cipher", "select_instance", "write_cache",
                                    "create_test_instance", "import_cache_data">>)

\* the state the service handlers work on, and a handler's return applied
Current == Svc(load_balance_counter, test_instance, cache)

Returns_MarksUnreachable(r) ==
    /\ load_balance_counter' = r.st.load_balance_counter
    /\ test_instance' = r.st.test_instance
    /\ cache' = r.st.cache
    /\ resp' = r.resp
    /\ instance_health' = IF r.resp.backend # <<>> /\ ~r.resp.backend[1].sent
                           THEN [i \in DOMAIN instance_health |-> "Unhealthy"]
                           ELSE instance_health

\* a handler touches the counter, the slot and the cache, and reads the
\* health table without writing it
Returns(r) ==
    /\ load_balance_counter' = r.st.load_balance_counter
    /\ test_instance' = r.st.test_instance
    /\ cache' = r.st.cache
    /\ resp' = r.resp
    /\ instance_health' = instance_health

Encrypt ==
    /\ Room(TRUE)
    /\ \E request \in EncryptRequests, rng \in RngOutcomes, post \in PostOutcomes,
          io_ok \in BOOLEAN :
            Returns(encrypt(Current, request, rng, post, io_ok))
    /\ UNCHANGED <<cfg, now, check_pc, health_check, create_pc, cache_writers, sweep>>

\* the encrypted data decrypt works on (lines 225-262): fetched from the
\* selected read instance, or the request's own, or an error
FetchOk(encrypted_data, counter, calls) ==
    [ok |-> TRUE, err |-> "", encrypted_data |-> encrypted_data, counter |-> counter,
     calls |-> calls]

FetchErr(err, counter, calls) ==
    [ok |-> FALSE, err |-> err, encrypted_data |-> NoCt, counter |-> counter,
     calls |-> calls]

fetch_encrypted_data(counter, request, get) ==
    IF request.resource_id = <<>>
    THEN FetchOk(request.encrypted_data, counter, <<>>)
    ELSE LET sel == select_instance(counter, FALSE)
         IN  IF sel.ok
             THEN IF call_ok(get)
                  THEN IF GenericResponse(get.body)
                       THEN IF get.body.member_t = "string"
                            THEN FetchOk(get.body.member, sel.counter,
                                         <<"select_instance", "get">>)
                            ELSE FetchErr("no_encrypted_data", sel.counter,
                                          <<"select_instance", "get">>)
                       ELSE FetchErr("json", sel.counter, <<"select_instance", "get">>)
                  ELSE FetchOk(request.encrypted_data, sel.counter,
                               <<"select_instance", "get">>)
             ELSE FetchOk(request.encrypted_data, sel.counter, <<"select_instance">>)

\* a return of decrypt, with the ciphertext that was handed to the cipher
\* (line 265)
Deciphered(response, encrypted_data) ==
    [response EXCEPT !.encrypted_data = encrypted_data]

\* EncryptionService::decrypt at time now, from state st
decrypt(st, request, get, io_ok) ==
    IF ~role_permits("decrypt")
    THEN Return(st, Failed("decrypt", request, "role"), <<>>)
    ELSE LET f == fetch_encrypted_data(st.load_balance_counter, request, get)
         IN  IF ~f.ok
             THEN Return(Svc(f.counter, st.test_instance, st.cache),
                         Failed("decrypt", request, f.err), f.calls)
             ELSE LET d == crypto_decrypt(f.encrypted_data, request.password)
                  IN  IF d.ok
                      THEN Return(Svc(f.counter, st.test_instance,
                                      write_cache(st.cache, now,
                                          DecryptCacheData(request, f.encrypted_data,
                                                           d.value),
                                          io_ok)),
                                  Deciphered(Warned(DecryptOk(request, d.value,
                                                              request.resource_id),
                                                    io_ok),
                                             f.encrypted_data),
                                  f.calls \o <<"cipher", "write_cache">>)
                      ELSE Return(Svc(f.counter, st.test_instance, st.cache),
                                  Deciphered(Failed("decrypt", request,
                                                    IF d.panic THEN "cipher_panic"
                                                    ELSE "cipher"),
                                             f.encrypted_data),
                                  f.calls \o <<"cipher">>)

Decrypt ==
    /\ Room(FALSE)
    /\ \E request \in DecryptRequests, get \in GetOutcomes, io_ok \in BOOLEAN :
            Returns(decrypt(Current, request, get, io_ok))
    /\ UNCHANGED <<cfg, now, check_pc, health_check, create_pc, cache_writers, sweep>>

\* the single-item operation of a batch on one of its items; an item is a
\* request with what its cipher, backend call and cache write will meet
single_item(op, st, item) ==
    IF op = "batch_encrypt"
    THEN encrypt(st, item.request, item.rng, item.post, item.io_ok)
    ELSE decrypt(st, item.request, item.get, item.io_ok)

\* the loop of batch_encrypt and batch_decrypt (lines 295-298, 311-314) from
\* item k on; results are the returns of the items processed so far.  With
\* on_failure = "abort" (the ? operator) a failing item ends the batch.
RECURSIVE batch_loop(_, _, _, _, _, _)
batch_loop(op, st, items, k, results, on_failure) ==
    IF k > Len(items)
    THEN [st |-> st,
          resp |-> [NoResp EXCEPT !.op = op, !.request = items,
                                  !.responses = SelectSeq(results, LAMBDA r : r.ok),
                                  !.results = results]]
    ELSE LET r == single_item(op, st, items[k])
         IN  IF ~r.resp.ok /\ on_failure = "abort"
             THEN [st |-> r.st,
                   resp |-> [Failed(op, items, r.resp.err)
                                EXCEPT !.results = Append(results, r.resp)]]
             ELSE batch_loop(op, r.st, items, k + 1, Append(results, r.resp), on_failure)

\* EncryptionService::batch_encrypt and batch_decrypt
batch_SkipsFailures(op, st, items) ==
    batch_loop(op, st, items, 1, <<>>, "skip")

batch(op, st, items) ==
    IF ~role_permits(IF op = "batch_encrypt" THEN "encrypt" ELSE "decrypt")
    THEN Return(st, Failed(op, items, "role"), <<>>)
    ELSE batch_loop(op, st, items, 1, <<>>, "abort")

\* the items of the batches of the model
\* an encrypt request with a backend that stores it and answers with its id,
\* and one with a backend whose answer is not the JSON envelope
Stored == [sent |-> TRUE, code |-> 200, body |-> CrudBody(TRUE, TRUE, "string", "r1")]
Garbled == [sent |-> TRUE, code |-> 200, body |-> CrudBody(FALSE, FALSE, "absent", "")]

\* every request served in full, and one that fails in the cipher and one that
\* fails on the backend's answer
BatchEncryptItems ==
    [request : EncryptRequests, rng : {"n1"}, post : {Stored}, io_ok : {TRUE}]
    \cup {[request |-> CHOOSE r \in EncryptRequests : r.data = "secret",
           rng |-> "rng_error", post |-> Stored, io_ok |-> TRUE],
          [request |-> CHOOSE r \in EncryptRequests : r.data = "memo",
           rng |-> "n1", post |-> Garbled, io_ok |-> TRUE]}

\* two ciphertexts under their password, and one under a wrong password
BatchDecryptItems ==
    [request : {r \in [encrypted_data : {Sealed("secret", generate_key("pw1234567890"), "n1"),
                                         StoredCt},
                       password : Passwords, resource_type : {"notes"},
                       resource_id : {<<>>}] :
                  r.password = "pw1234567890" \/ r.encrypted_data = StoredCt},
     get : {[sent |-> FALSE, code |-> 0, body |-> CrudBody(FALSE, FALSE, "absent", NoCt)]},
     io_ok : {TRUE}]

Batches(item_set) == UNION {[1..n -> item_set] : n \in 0..MaxBatch}

\* the model serves a batch only while the cache and the counter have room
\* for all its items
BatchRoom(items) ==
    /\ CacheCount(cache) + Len(items) <= MaxBatch
    /\ load_balance_counter + Len(items) <= MaxCounter

\* single requests drawn from the items of the batches
EncryptItem ==
    /\ Room(TRUE)
    /\ \E item \in BatchEncryptItems :
          Returns(single_item("batch_encrypt", Current, item))
    /\ UNCHANGED <<cfg, now, check_pc, health_check, create_pc, cache_writers, sweep>>

DecryptItem ==
    /\ Room(FALSE)
    /\ \E item \in BatchDecryptItems :
          Returns(single_item("batch_decrypt", Current, item))
    /\ UNCHANGED <<cfg, now, check_pc, health_check, create_pc, cache_writers, sweep>>

BatchEncrypt ==
    /\ \E items \in Batches(BatchEncryptItems) :
          /\ BatchRoom(items)
          /\ Returns(batch("batch_encrypt", Current, items))
    /\ UNCHANGED <<cfg, now, check_pc, health_check, create_pc, cache_writers, sweep>>

BatchDecrypt ==
    /\ \E items \in Batches(BatchDecryptItems) :
          /\ BatchRoom(items)
          /\ Returns(batch("batch_decrypt", Current, items))
    /\ UNCHANGED <<cfg, now, check_pc, health_check, create_pc, cache_writers, sweep>>

(***************************************************************************)
(* The background tasks and the clock.                                     *)
(***************************************************************************)
\* the test of periodic_check on the copy of the record:
\* current_timestamp > instance.expired_at && instance.state != Expired
past_expiry_unmarked_AnyState(instance, current_timestamp) ==
    current_timestamp > instance.expired_at

past_expiry_unmarked(instance, current_timestamp) ==
    current_timestamp > instance.expired_at /\ instance.state # "Expired"

\* send_wechat_reminder: nothing is sent when no webhook is configured, and
\* an Err of the call is only logged by periodic_check
ReminderOutcomes == {"unconfigured", "sent", "failed"}

\* periodic_check up to the test of line 196 on the copy of the slot it read
periodic_check_read ==
    /\ check_pc = "idle"
    /\ check_pc' = IF test_instance # <<>> /\ past_expiry_unmarked(test_instance[1], now)
                   THEN "marking" ELSE "idle"
    /\ resp' = [NoResp EXCEPT !.op = "periodic_check"]
    /\ UNCHANGED <<cfg, instance_health, load_balance_counter, now, test_instance, cache, health_check, create_pc, cache_writers, sweep>>

\* periodic_check from line 199 on: under the write lock, whatever record the
\* slot holds now is marked Expired; then the reminder is sent (its failure is
\* only logged)
periodic_check_mark ==
    /\ check_pc = "marking"
    /\ test_instance' = IF test_instance # <<>>
                        THEN <<[test_instance[1] EXCEPT !.state = "Expired"]>>
                        ELSE test_instance
    /\ check_pc' = "idle"
    /\ \E reminder \in ReminderOutcomes :
          resp' = [NoResp EXCEPT !.op = "periodic_check",
                                 !.calls = <<"send_wechat_reminder">>,
                                 !.err = IF reminder = "failed"
                                         THEN "reminder" ELSE ""]
    /\ UNCHANGED <<cfg, instance_health, load_balance_counter, now, cache, health_check, create_pc, cache_writers, sweep>>

\* a caller of create_test_instance: the slot it leaves, and the record it
\* returns (a clone of the one in the slot)
CreateTestInstance ==
    /\ test_instance' = create_test_instance(test_instance, now)
    /\ resp' = [NoResp EXCEPT !.op = "create_test_instance", !.record = test_instance',
                              !.found = test_instance]
    /\ UNCHANGED <<cfg, instance_health, load_balance_counter, now, check_pc, health_check, create_pc, cache, cache_writers, sweep>>

\* a caller of import_cache_data: the slot it leaves, the slot it found, and
\* whether reading the cache succeeded
ImportCacheData ==
    /\ test_instance' = import_cache_data(test_instance, now)
    /\ \E order \in Orders(DOMAIN cache), io_ok \in BOOLEAN :
          LET r == read_all_cache(cache, order, io_ok)
          IN  resp' = [NoResp EXCEPT !.op = "import_cache_data", !.ok = r.ok,
                                    !.entries = r.entries, !.found = test_instance]
    /\ UNCHANGED <<cfg, instance_health, load_balance_counter, now, check_pc, health_check, create_pc, cache, cache_writers, sweep>>

\* the cleanup task: a sweep in which remove_file fails for the files in
\* unremovable (a warning each) and a failing read_dir or metadata call ends
\* the sweep with an Err before the files in unreached; every removal is
\* logged
Sweep ==
    /\ \E unremovable, unreached \in SUBSET DOMAIN cache :
          /\ cache' = clean_expired_cache(cache, now, unremovable \cup unreached)
          /\ resp' = [NoResp EXCEPT !.op = "clean_expired_cache",
                                    !.ok = (unreached = {}),
                                    !.kept = {b \in unremovable \ unreached :
                                                IsExpired(cache, now, b)},
                                    !.removed = DOMAIN cache \ DOMAIN cache']
    /\ UNCHANGED <<cfg, instance_health, load_balance_counter, now, test_instance, check_pc, health_check, create_pc, cache_writers, sweep>>

\* a caller of write_cache
CacheDataTypes ==
    { EncryptCacheData([data |-> "secret", password |-> "pw1234567890",
                        resource_type |-> "notes"],
                       Sealed("secret", generate_key("pw1234567890"), "n1")),
      DecryptCacheData([encrypted_data |-> StoredCt, password |-> "pw1234567890",
                        resource_type |-> "notes", resource_id |-> <<"r1">>],
                       StoredCt, "memo") }

WriteCache ==
    /\ CacheCount(cache) < MaxWrites
    /\ \E data_type \in CacheDataTypes, io_ok \in BOOLEAN :
          /\ cache' = write_cache(cache, now, data_type, io_ok)
          /\ resp' = [NoResp EXCEPT !.op = "write_cache", !.ok = io_ok,
                                    !.entries = <<[timestamp |-> now,
                                                   data_type |-> data_type]>>]
    /\ UNCHANGED <<cfg, instance_health, load_balance_counter, now, test_instance, check_pc, health_check, create_pc, cache_writers, sweep>>

\* the number of records written to the files, those run together on one
\* line counted each
RECURSIVE SumRecords(_)
SumRecords(lines) ==
    IF lines = <<>> THEN 0
    ELSE (IF "joined" \in DOMAIN Head(lines) THEN Len(Head(lines).joined) ELSE 1)
             + SumRecords(Tail(lines))

RECURSIVE WrittenRecords(_, _)
WrittenRecords(files, B) ==
    IF B = {} THEN 0
    ELSE LET b == CHOOSE x \in B : TRUE
         IN  SumRecords(files[b].lines) + WrittenRecords(files, B \ {b})

\* a record whose JSON line fits the buffer of the writer
SmallCacheData == CHOOSE data_type \in CacheDataTypes : data_type.kind = "Encrypt"

\* a record whose JSON line does not fit the buffer of the writer
LargeCacheData ==
    EncryptCacheData([data |-> "document of 8 KiB", password |-> "pw1234567890",
                      resource_type |-> "notes"],
                     Sealed("document of 8 KiB", generate_key("pw1234567890"), "n1"))

\* write_cache by caller p, the calls of several requests running side by
\* side, a write to the file at a time.  A record that fits the buffer: the
\* file is opened and flush() writes the record and its line end in one
\* write; when the file cannot be opened or written, nothing and an Err
write_cache_whole(p) ==
    /\ cache_writers.pc[p] = "idle"
    /\ WrittenRecords(cache, DOMAIN cache) < MaxRecords
    /\ \E data_type \in {SmallCacheData}, io_ok \in BOOLEAN :
          LET b == get_current_cache_file(now)
              entry == [timestamp |-> now, data_type |-> data_type]
          IN  /\ ~exceeds_capacity(data_type)
              /\ IF io_ok
                 THEN /\ cache' = append(cache, b, now, <<to_string(entry)>>,
                                         b \in cache_writers.unterminated)
                      /\ cache_writers' = [cache_writers EXCEPT
                                              !.unterminated = @ \ {b},
                                              !.returned = @ + 1]
                 ELSE UNCHANGED <<cache, cache_writers, sweep>>
              /\ resp' = [NoResp EXCEPT !.op = "write_cache", !.ok = io_ok,
                                        !.entries = <<entry>>]
    /\ UNCHANGED <<cfg, instance_health, load_balance_counter, now, test_instance,
                   check_pc, health_check, create_pc, sweep>>

\* a record of 8 KiB or more: writeln! writes the record to the file, the
\* line end stays in the buffer
write_cache_record(p) ==
    /\ cache_writers.pc[p] = "idle"
    /\ WrittenRecords(cache, DOMAIN cache) < MaxRecords
    /\ LET b == get_current_cache_file(now)
           entry == [timestamp |-> now, data_type |-> LargeCacheData]
       IN  /\ exceeds_capacity(LargeCacheData)
           /\ cache' = append(cache, b, now, <<to_string(entry)>>,
                              b \in cache_writers.unterminated)
           /\ cache_writers' = [cache_writers EXCEPT
                                   !.pc[p] = "flushing", !.file[p] = b,
                                   !.unterminated = @ \cup {b}]
    /\ UNCHANGED <<cfg, instance_health, load_balance_counter, now, test_instance,
                   check_pc, health_check, create_pc, resp, sweep>>

\* flush() writes the line end to the file the caller has open, and the
\* call returns Ok; or the write fails and the call returns an Err
write_cache_line_end(p) ==
    /\ cache_writers.pc[p] = "flushing"
    /\ \E io_ok \in BOOLEAN :
          LET b == cache_writers.file[p]
          IN  /\ IF io_ok
                 THEN /\ cache' = append_line_end(cache, b, now,
                                                  b \in cache_writers.unterminated)
                      /\ cache_writers' = [cache_writers EXCEPT
                                              !.pc[p] = "idle", !.file[p] = 0,
                                              !.unterminated = @ \ {b},
                                              !.returned = @ + 1]
                 ELSE /\ cache' = cache
                      /\ cache_writers' = [cache_writers EXCEPT !.pc[p] = "idle",
                                                               !.file[p] = 0]
              /\ resp' = [NoResp EXCEPT !.op = "write_cache", !.ok = io_ok]
    /\ UNCHANGED <<cfg, instance_health, load_balance_counter, now, test_instance,
                   check_pc, health_check, create_pc, sweep>>

\* write_cache by caller p, a reading of the clock at a time.  The entry is
\* built with the time get_current_timestamp gives
write_cache_entry(p) ==
    /\ cache_writers.pc[p] = "idle"
    /\ WrittenRecords(cache, DOMAIN cache) < MaxWrites
    /\ \E data_type \in {SmallCacheData} :
          cache_writers' = [cache_writers EXCEPT
                              !.pc[p] = "serialized",
                              !.cache_entry[p] = <<[timestamp |-> now,
                                                    data_type |-> data_type]>>]
    /\ UNCHANGED <<cfg, instance_health, load_balance_counter, now, test_instance,
                   check_pc, health_check, create_pc, cache, resp, sweep>>

\* get_current_cache_file reads the clock again for the name of the file,
\* and the line goes to the end of that file
write_cache_file(p) ==
    /\ cache_writers.pc[p] = "serialized"
    /\ \E io_ok \in BOOLEAN :
          LET b == get_current_cache_file(now)
              entry == cache_writers.cache_entry[p][1]
          IN  /\ cache' = IF io_ok
                          THEN append(cache, b, now, <<to_string(entry)>>,
                                      b \in cache_writers.unterminated)
                          ELSE cache
              /\ cache_writers' = [cache_writers EXCEPT
                                      !.pc[p] = "idle", !.cache_entry[p] = <<>>,
                                      !.returned = IF io_ok THEN @ + 1 ELSE @]
              /\ resp' = [NoResp EXCEPT !.op = "write_cache", !.ok = io_ok,
                                        !.entries = <<entry>>]
    /\ UNCHANGED <<cfg, instance_health, load_balance_counter, now, test_instance,
                   check_pc, health_check, create_pc, sweep>>

\* a caller of read_all_cache
ReadAllCache ==
    /\ \E order \in Orders(DOMAIN cache), io_ok \in BOOLEAN :
          LET r == read_all_cache(cache, order, io_ok)
          IN  resp' = [NoResp EXCEPT !.op = "read_all_cache", !.ok = r.ok,
                                    !.request = [io_ok |-> io_ok],
                                    !.entries = r.entries]
    /\ UNCHANGED <<cfg, instance_health, load_balance_counter, now, test_instance,
                   check_pc, health_check, create_pc, cache, cache_writers, sweep>>

\* the times the clock of the cache model shows: two buckets at start, and
\* around the end of the retention window of files written then
CacheTimes == {0, update_interval, retention_time, retention_time + 1,
               update_interval + retention_time + 1}

\* the times the clock of the model of concurrent writers shows: two buckets
WriterTimes == {0, update_interval}

\* the times the clock of the model of the two clock readings of a write
\* shows: the last second of a bucket and the first of the next among them
StampTimes == {0, update_interval - 1, update_interval}

\* the times the clock of the service model shows: start, and past both the
\* retention window of the cache and the lifetime of a fallback instance made
\* at start
ServiceTimes == {0, 172800 + 1}

\* the times the clock of the fallback model shows: around the end of the
\* lifetime of an instance made at start, and of one made after that
FallbackTimes == {0, 1, 172800, 172800 + 1, 2 * 172800 + 1, 2 * 172800 + 2}

Clock(times) ==
    /\ \E t \in times : t > now /\ now' = t
    /\ UNCHANGED <<cfg, instance_health, load_balance_counter, test_instance, check_pc, health_check, create_pc,
                   cache, resp, cache_writers, sweep>>

(***************************************************************************)
(* The scheduler alone: CrudApiScheduler::new over any registry, then      *)
(* health ticks and selections in any order.                               *)
(***************************************************************************)
InitSched ==
    /\ cfg \in [strategy : SchedulerStrategy, instances : Registries(MaxInst),
                role : {"mixed"}]
    /\ instance_health = [i \in 1..NumInst |-> "Unknown"]
    /\ load_balance_counter = 0
    /\ now = 0
    /\ test_instance = <<>>
    /\ check_pc = "idle"
    /\ health_check = NoHealthCheck
    /\ create_pc = NoCallers
    /\ cache_writers = NoWriters
    /\ sweep = NoSweep
    /\ cache = NoFiles
    /\ resp = NoResp

HealthTick == \E outs \in [1..NumInst -> ProbeOutcomes] : perform_health_check(outs)

Select == \E w \in BOOLEAN : SelectInstance(w)

NextSched == HealthTick \/ Select

SpecSched == InitSched /\ [][NextSched]_vars

\* the scheduler with its health loop kept running: start_health_check
\* spawns a task that ticks on an interval for as long as the process runs,
\* and every probe ends within the timeout of the HTTP client.  A probe is
\* not answered, or answered 200 with status ok
LiveOutcomes ==
    { [sent |-> FALSE, code |-> 0, body |-> NotJson],
      [sent |-> TRUE, code |-> 200, body |-> StatusBody("ok")] }

HealthTickLive == \E outs \in [1..NumInst -> LiveOutcomes] : perform_health_check(outs)

NextLive == HealthTickLive \/ Select

SpecLive == InitSched /\ [][NextLive]_vars /\ WF_vars(HealthTickLive)

(***************************************************************************)
(* The scheduler with a log: the response of a selection also carries the  *)
(* selections that returned Ok since the last health tick, oldest first.   *)
(***************************************************************************)
Selection(w, r) == [is_write |-> w, instance |-> r.instance]

SelectInstanceLogged(w) ==
    /\ CounterRoom(w)
    /\ LET r == select_instance(load_balance_counter, w)
           log == IF resp.op = "select_instance" THEN resp.results ELSE <<>>
       IN  /\ load_balance_counter' = r.counter
           /\ resp' = [SelectResp(w, r) EXCEPT
                          !.results = IF r.ok THEN Append(log, Selection(w, r)) ELSE log]
    /\ UNCHANGED <<cfg, instance_health, now, test_instance, check_pc, health_check, create_pc, cache, cache_writers, sweep>>

NextRounds == HealthTick \/ \E w \in BOOLEAN : SelectInstanceLogged(w)

\* CrudApiScheduler::new over any registry under LoadBalance
InitRounds == InitSched /\ cfg.strategy = "LoadBalance"

SpecRounds == InitRounds /\ [][NextRounds]_vars

(***************************************************************************)
(* The health monitor step by step, with the readers of the health table.  *)
(* One task runs perform_health_check, tick after tick; the table is       *)
(* behind an RwLock that the monitor takes for writing once per tick and   *)
(* every reader takes for reading for the length of its pass.              *)
(***************************************************************************)
\* the write guard of line 115 is alive: taken before the loop over the
\* entries and dropped when perform_health_check returns
instance_health_write_locked_PerEntry == FALSE

instance_health_write_locked == health_check.pc = "applying"

\* steps 1 and 2 of perform_health_check: the tick probes every instance
\* without the lock and collects new_health_status
health_probe ==
    /\ health_check.pc = "idle"
    /\ \E outs \in [1..NumInst -> ProbeOutcomes] :
          /\ health_check' = [pc |-> "probed", before |-> instance_health,
                              new_health_status |-> [i \in 1..NumInst |-> ProbeStatus(outs[i])],
                              applied |-> 0]
          /\ resp' = [NoResp EXCEPT !.op = "perform_health_check"]
    /\ UNCHANGED <<cfg, instance_health, load_balance_counter, now, test_instance,
                   check_pc, cache, create_pc, cache_writers, sweep>>

\* step 3, line 115: the write lock is acquired
health_lock ==
    /\ health_check.pc = "probed"
    /\ health_check' = [health_check EXCEPT !.pc = "applying"]
    /\ resp' = [NoResp EXCEPT !.op = "perform_health_check"]
    /\ UNCHANGED <<cfg, instance_health, load_balance_counter, now, test_instance,
                   check_pc, cache, create_pc, cache_writers, sweep>>

\* step 3, lines 116-124: one pass of the loop, on entry applied + 1
health_apply_KeepsUnhealthy ==
    /\ health_check.pc = "applying"
    /\ health_check.applied < NumInst
    /\ LET i == health_check.applied + 1
       IN  /\ instance_health' =
                 IF instance_health[i] = "Unhealthy"
                 THEN instance_health
                 ELSE [instance_health EXCEPT ![i] = health_check.new_health_status[i]]
           /\ health_check' = [health_check EXCEPT !.applied = i]
    /\ resp' = [NoResp EXCEPT !.op = "perform_health_check"]
    /\ UNCHANGED <<cfg, load_balance_counter, now, test_instance, check_pc, cache, create_pc, cache_writers, sweep>>

health_apply ==
    /\ health_check.pc = "applying"
    /\ health_check.applied < NumInst
    /\ LET i == health_check.applied + 1
       IN  /\ instance_health' =
                 [instance_health EXCEPT ![i] = health_check.new_health_status[i]]
           /\ health_check' = [health_check EXCEPT !.applied = i]
    /\ resp' = [NoResp EXCEPT !.op = "perform_health_check"]
    /\ UNCHANGED <<cfg, load_balance_counter, now, test_instance, check_pc, cache, create_pc, cache_writers, sweep>>

\* line 126: the loop is over, the function returns and the guard drops
health_unlock ==
    /\ health_check.pc = "applying"
    /\ health_check.applied = NumInst
    /\ health_check' = [health_check EXCEPT !.pc = "idle"]
    /\ resp' = [NoResp EXCEPT !.op = "perform_health_check"]
    /\ UNCHANGED <<cfg, instance_health, load_balance_counter, now, test_instance,
                   check_pc, cache, create_pc, cache_writers, sweep>>

\* CrudApiScheduler::get_all_instance_status: under the read lock, the status
\* of every instance with its id
get_all_instance_status ==
    [i \in 1..NumInst |-> [id |-> i, status |-> instance_health[i]]]

\* the readers: each takes the read lock, which waits for a writer
GetAllInstanceStatus ==
    /\ ~instance_health_write_locked
    /\ resp' = [NoResp EXCEPT !.op = "get_all_instance_status",
                              !.entries = get_all_instance_status]
    /\ UNCHANGED <<cfg, instance_health, load_balance_counter, now, test_instance,
                   check_pc, health_check, create_pc, cache, cache_writers, sweep>>

SelectLocked ==
    /\ ~instance_health_write_locked
    /\ Select

NextHealth ==
    \/ health_probe
    \/ health_lock
    \/ health_apply
    \/ health_unlock
    \/ GetAllInstanceStatus
    \/ SelectLocked

SpecHealth == InitSched /\ [][NextHealth]_vars

(***************************************************************************)
(* The service: main with a configuration from the environment that       *)
(* validate accepts, then requests and background tasks in any order.      *)
(* Spec is the write side (encrypt, with the fallback manager it drives),  *)
(* SpecDec the read side (decrypt, which never touches the fallback slot). *)
(***************************************************************************)
Init ==
    /\ cfg \in ServedConfigs
    /\ instance_health = [i \in 1..NumInst |-> "Unknown"]
    /\ load_balance_counter = 0
    /\ now = 0
    /\ test_instance = <<>>
    /\ check_pc = "idle"
    /\ health_check = NoHealthCheck
    /\ create_pc = NoCallers
    /\ cache_writers = NoWriters
    /\ sweep = NoSweep
    /\ cache = NoFiles
    /\ resp = NoResp

Next ==
    \/ HealthTick
    \/ Encrypt
    \/ periodic_check_read
    \/ periodic_check_mark
    \/ Sweep
    \/ Clock(ServiceTimes)

Spec == Init /\ [][Next]_vars

NextDec ==
    \/ HealthTick
    \/ Decrypt
    \/ Sweep
    \/ Clock(ServiceTimes)

SpecDec == Init /\ [][NextDec]_vars

(***************************************************************************)
(* The request handlers of the service: single requests and batches,       *)
(* started under any health table the monitor can have left (all Unknown   *)
(* before the first tick, a probe result for every instance after it).     *)
(***************************************************************************)
InitBatch ==
    /\ cfg \in ServedConfigs
    /\ instance_health \in {[i \in 1..NumInst |-> "Unknown"]}
                             \cup [1..NumInst -> {"Healthy", "Unhealthy"}]
    /\ load_balance_counter = 0
    /\ now = 0
    /\ test_instance = <<>>
    /\ check_pc = "idle"
    /\ health_check = NoHealthCheck
    /\ create_pc = NoCallers
    /\ cache_writers = NoWriters
    /\ sweep = NoSweep
    /\ cache = NoFiles
    /\ resp = NoResp

NextBatch ==
    \/ EncryptItem
    \/ DecryptItem
    \/ BatchEncrypt
    \/ BatchDecrypt

SpecBatch == InitBatch /\ [][NextBatch]_vars

\* the requests and the readers of the health table, with the health monitor
NextService ==
    \/ HealthTick
    \/ Select
    \/ GetAllInstanceStatus
    \/ Encrypt
    \/ Decrypt

SpecService == Init /\ [][NextService]_vars

\* single requests of both kinds, with every outcome of the cipher, the
\* backend and the cache write
NextRequests == Encrypt \/ Decrypt

SpecRequests == InitBatch /\ [][NextRequests]_vars

(***************************************************************************)
(* Start-up: validate applied to any AppConfig, and main, which loads the  *)
(* configuration from an environment, validates it and, unless that        *)
(* panics, constructs the service (the scheduler with its health table).   *)
(***************************************************************************)
\* the values of AppConfig (a public struct)
AnyConfigs ==
    [strategy : SchedulerStrategy,
     instances : UNION {[1..k -> InstanceTypes \cup {"other"}] : k \in 0..MaxInst},
     role : EnvRoles]

\* the environments main may start in (CRUD_API_WRITE_INSTANCE_URL set)
Envs == [backend_type : BackendTypes, instances : EnvInstances, role : EnvRoles]

InitConfig ==
    /\ cfg \in AnyConfigs
    /\ instance_health = <<>>
    /\ load_balance_counter = 0
    /\ now = 0
    /\ test_instance = <<>>
    /\ check_pc = "idle"
    /\ health_check = NoHealthCheck
    /\ create_pc = NoCallers
    /\ cache_writers = NoWriters
    /\ sweep = NoSweep
    /\ cache = NoFiles
    /\ resp = NoResp

\* a caller of validate
Validate ==
    /\ resp' = [NoResp EXCEPT !.op = "validate", !.ok = validate(cfg)]
    /\ UNCHANGED <<cfg, instance_health, load_balance_counter, now, test_instance,
                   check_pc, health_check, create_pc, cache, cache_writers, sweep>>

\* main: from_env, validate().expect(..), EncryptionService::new; ok tells
\* whether the process went on to serve
Main ==
    \E env \in Envs :
        /\ cfg' = from_env(env.backend_type, env.instances, env.role)
        /\ resp' = [NoResp EXCEPT !.op = "main", !.request = env, !.ok = validate(cfg')]
        /\ instance_health' = IF validate(cfg')
                               THEN [i \in 1..Len(cfg'.instances) |-> "Unknown"]
                               ELSE <<>>
        /\ UNCHANGED <<load_balance_counter, now, test_instance, check_pc, health_check, create_pc, cache,
                       cache_writers, sweep>>

NextConfig == Validate \/ Main

SpecConfig == InitConfig /\ [][NextConfig]_vars

(***************************************************************************)
(* The cache alone: CacheManager::new, then writers, readers and the       *)
(* cleanup task.                                                           *)
(***************************************************************************)
InitCache ==
    /\ cfg = from_env("unset", <<>>, "mixed")
    /\ instance_health = [i \in 1..NumInst |-> "Unknown"]
    /\ load_balance_counter = 0
    /\ now = 0
    /\ test_instance = <<>>
    /\ check_pc = "idle"
    /\ health_check = NoHealthCheck
    /\ create_pc = NoCallers
    /\ cache_writers = NoWriters
    /\ sweep = NoSweep
    /\ cache = NoFiles
    /\ resp = NoResp

NextCache ==
    \/ WriteCache
    \/ ReadAllCache
    \/ Sweep
    \/ Clock(CacheTimes)

SpecCache == InitCache /\ [][NextCache]_vars

(***************************************************************************)
(* The cache under everything that touches it: requests, replays, reads of *)
(* the whole cache and sweeps, started under any health table.             *)
(***************************************************************************)
StoreRoom(is_write_operation) ==
    /\ CacheCount(cache) < MaxStored
    /\ CounterRoom(is_write_operation)

EncryptStored ==
    /\ StoreRoom(TRUE)
    /\ \E item \in BatchEncryptItems :
          Returns(encrypt(Current, item.request, item.rng, item.post, item.io_ok))
    /\ UNCHANGED <<cfg, now, check_pc, health_check, create_pc, cache_writers, sweep>>

DecryptStored ==
    /\ StoreRoom(FALSE)
    /\ \E item \in BatchDecryptItems :
          Returns(decrypt(Current, item.request, item.get, item.io_ok))
    /\ UNCHANGED <<cfg, now, check_pc, health_check, create_pc, cache_writers, sweep>>

NextStore ==
    \/ EncryptStored
    \/ DecryptStored
    \/ ImportCacheData
    \/ ReadAllCache
    \/ Sweep
    \/ Clock(ServiceTimes)

SpecStore == InitBatch /\ [][NextStore]_vars

(***************************************************************************)
(* The cache under concurrent requests: calls of write_cache side by side, *)
(* a write to the file at a time, and reads of the whole cache.            *)
(***************************************************************************)
NextWriters ==
    \/ \E p \in Callers : write_cache_whole(p)
    \/ \E p \in Callers : write_cache_record(p)
    \/ \E p \in Callers : write_cache_line_end(p)
    \/ ReadAllCache
    \/ Clock(WriterTimes)

SpecWriters == InitCache /\ [][NextWriters]_vars

(***************************************************************************)
(* The sweep step by step, with writes and the clock running beside it.    *)
(* clean_expired_cache reads the clock once, lists the directory, and then *)
(* looks at one file after another.                                        *)
(***************************************************************************)
\* current_timestamp - modified_time > retention_time, in u64.  When the
\* modified time is the later one the subtraction has no result in u64: a
\* build with overflow checks panics there, and one without them wraps to
\* 2^64 less the difference, which is above the retention time
AgeCheck(current_timestamp, modified_time, overflow_checks) ==
    IF modified_time > current_timestamp
    THEN IF overflow_checks THEN "panic" ELSE "expired"
    ELSE IF current_timestamp - modified_time > retention_time
         THEN "expired" ELSE "fresh"

\* get_current_timestamp and read_dir: the listing holds the files there are
sweep_start ==
    /\ sweep.pc = "idle"
    /\ sweep' = [pc |-> "listing", current_timestamp |-> now, entries |-> DOMAIN cache]
    /\ UNCHANGED <<cfg, instance_health, load_balance_counter, now, test_instance,
                   check_pc, health_check, create_pc, cache, resp, cache_writers>>

\* the next file of the listing: its modified time is read and compared, and
\* an expired file is removed, or stays with a warning when it cannot be
\* removed; an Err of metadata ends the sweep (io_ok false), a panic ends
\* the cleanup task
sweep_file(b) ==
    /\ sweep.pc = "listing"
    /\ b \in sweep.entries
    /\ \E io_ok, removable, overflow_checks \in BOOLEAN :
          LET age == AgeCheck(sweep.current_timestamp, cache[b].mtime, overflow_checks)
          IN  IF ~io_ok
              THEN /\ sweep' = NoSweep
                   /\ cache' = cache
                   /\ resp' = [NoResp EXCEPT !.op = "clean_expired_cache", !.ok = FALSE]
              ELSE IF age = "panic"
              THEN /\ sweep' = [sweep EXCEPT !.pc = "panicked"]
                   /\ cache' = cache
                   /\ resp' = [NoResp EXCEPT !.op = "clean_expired_cache", !.ok = FALSE,
                                             !.err = "panic"]
              ELSE /\ sweep' = [sweep EXCEPT !.entries = @ \ {b}]
                   /\ cache' = IF age = "expired" /\ removable
                               THEN [x \in DOMAIN cache \ {b} |-> cache[x]]
                               ELSE cache
                   /\ resp' = resp
    /\ UNCHANGED <<cfg, instance_health, load_balance_counter, now, test_instance,
                   check_pc, health_check, create_pc, cache_writers>>

\* the listing is at its end: Ok(())
sweep_end ==
    /\ sweep.pc = "listing"
    /\ sweep.entries = {}
    /\ sweep' = NoSweep
    /\ resp' = [NoResp EXCEPT !.op = "clean_expired_cache", !.ok = TRUE]
    /\ UNCHANGED <<cfg, instance_health, load_balance_counter, now, test_instance,
                   check_pc, health_check, create_pc, cache, cache_writers>>

\* the times the clock of the model of the sweep shows: two seconds of one
\* bucket, and past the retention window of files written then
SweepTimes == {0, 1, retention_time + 2}

NextSweep ==
    \/ WriteCache
    \/ sweep_start
    \/ \E b \in DOMAIN cache : sweep_file(b)
    \/ sweep_end
    \/ Clock(SweepTimes)

SpecSweep == InitCache /\ [][NextSweep]_vars

(***************************************************************************)
(* The cache under writes that read the clock twice, once for the entry    *)
(* and once for the file, with the clock running between the two.          *)
(***************************************************************************)
NextStamp ==
    \/ \E p \in Callers : write_cache_entry(p)
    \/ \E p \in Callers : write_cache_file(p)
    \/ Clock(StampTimes)

SpecStamp == InitCache /\ [][NextStamp]_vars

(***************************************************************************)
(* The fallback manager alone: callers of create_test_instance and the     *)
(* hourly periodic_check task, running on the threads of the runtime.      *)
(***************************************************************************)
NextFallback ==
    \/ CreateTestInstance
    \/ ImportCacheData
    \/ periodic_check_read
    \/ periodic_check_mark
    \/ Clock(FallbackTimes)

SpecFallback == Init /\ [][NextFallback]_vars

(***************************************************************************)
(* The fallback slot under concurrent callers of create_test_instance,     *)
(* step by step.  The slot is behind an RwLock; create_test_instance takes *)
(* it for writing on entry (line 85) and holds it until it returns.        *)
(***************************************************************************)
\* some caller holds the write guard of line 85
test_instance_write_locked_Never == FALSE

test_instance_write_locked ==
    \E p \in Callers : create_pc[p] \in {"checking", "installing"}

\* line 85: the caller acquires the write lock
create_lock(p) ==
    /\ create_pc[p] = "idle"
    /\ ~test_instance_write_locked
    /\ create_pc' = [create_pc EXCEPT ![p] = "checking"]
    /\ UNCHANGED <<cfg, instance_health, load_balance_counter, now, test_instance,
                   check_pc, health_check, cache, resp, cache_writers, sweep>>

\* lines 88-92: a Created record that has not reached expired_at is returned
\* as it is; otherwise the caller goes on to build a record
create_check(p) ==
    /\ create_pc[p] = "checking"
    /\ IF test_instance # <<>> /\ test_instance[1].state = "Created"
          /\ now < test_instance[1].expired_at
       THEN /\ create_pc' = [create_pc EXCEPT ![p] = "idle"]
            /\ resp' = [NoResp EXCEPT !.op = "create_test_instance",
                                      !.record = test_instance, !.found = test_instance]
       ELSE /\ create_pc' = [create_pc EXCEPT ![p] = "installing"]
            /\ resp' = resp
    /\ UNCHANGED <<cfg, instance_health, load_balance_counter, now, test_instance,
                   check_pc, health_check, cache, cache_writers, sweep>>

\* lines 96-112: the record is built from the current time, stored in the
\* slot and returned; the guard drops
create_install(p) ==
    /\ create_pc[p] = "installing"
    /\ test_instance' = <<TestInstanceConfig(now, now + 172800, "Created")>>
    /\ create_pc' = [create_pc EXCEPT ![p] = "idle"]
    /\ resp' = [NoResp EXCEPT !.op = "create_test_instance", !.record = test_instance',
                              !.found = test_instance]
    /\ UNCHANGED <<cfg, instance_health, load_balance_counter, now, check_pc,
                   health_check, cache, cache_writers, sweep>>

\* periodic_check takes the lock for each of its two accesses to the slot
periodic_check_read_locked == ~test_instance_write_locked /\ periodic_check_read

periodic_check_mark_locked == ~test_instance_write_locked /\ periodic_check_mark

NextSlot ==
    \/ \E p \in Callers : create_lock(p)
    \/ \E p \in Callers : create_check(p)
    \/ \E p \in Callers : create_install(p)
    \/ periodic_check_read_locked
    \/ periodic_check_mark_locked
    \/ Clock(FallbackTimes)

SpecSlot == Init /\ [][NextSlot]_vars

(***************************************************************************)
(* Properties of the scheduler and the health monitor.                     *)
(***************************************************************************)
Selected == resp.op = "select_instance"

\* the instance types a strategy serves a direction with
EligibleTypes(strategy, is_write) ==
    IF strategy = "Single" THEN {"mixed"}
    ELSE {IF is_write THEN "write" ELSE "read", "mixed"}

Eligible(i, is_write) == cfg.instances[i] \in EligibleTypes(cfg.strategy, is_write)

HealthyEligible(is_write) ==
    {i \in 1..NumInst : Eligible(i, is_write) /\ instance_health[i] = "Healthy"}

Min(S) == CHOOSE x \in S : \A y \in S : x <= y

\* C4: under every strategy and for both directions, a selection is rejected
\* (NoHealthyInstance) whenever no instance that the strategy admits for the
\* direction is Healthy.
C4_RejectsWithoutHealthyCandidate ==
    (Selected /\ \A i \in 1..NumInst :
                    Eligible(i, resp.is_write) => instance_health[i] # "Healthy")
        => ~resp.ok

\* a selection was rejected although some instance (of another type) is
\* Healthy and a candidate exists that is not
C4_Witness ==
    /\ Selected /\ ~resp.ok
    /\ \E i \in 1..NumInst : instance_health[i] = "Healthy"
    /\ \E i \in 1..NumInst : Eligible(i, resp.is_write) /\ instance_health[i] = "Unhealthy"

\* C5: a selection never returns an instance whose recorded state is Unknown
\* or Unhealthy, and while every instance is still Unknown (no probe tick has
\* been applied) no selection succeeds.
C5_OnlyHealthySelected ==
    Selected =>
        /\ resp.ok => instance_health[resp.instance] = "Healthy"
        /\ (\A i \in 1..NumInst : instance_health[i] = "Unknown") => ~resp.ok

\* a selection was tried before the first tick, with a candidate registered
C5_Witness ==
    /\ Selected /\ ~resp.ok
    /\ \A i \in 1..NumInst : instance_health[i] = "Unknown"
    /\ \E i \in 1..NumInst : Eligible(i, resp.is_write)

\* the k-th of the selections that follow one another from counter c
RECURSIVE NthSelection(_, _, _)
NthSelection(c, is_write, k) ==
    IF k = 0 THEN select_instance(c, is_write)
    ELSE NthSelection(select_instance(c, is_write).counter, is_write, k - 1)

\* the healthy candidates of a direction, in registry order
Candidates(is_write) ==
    LET Keep(i) == i \in HealthyEligible(is_write) IN SelectSeq(Registry, Keep)

\* C6: under LoadBalance with N healthy candidates of a direction and no health
\* change, the next N selections of that direction return each candidate once,
\* the k-th being candidate (counter + k) mod N with the counter raised by one
\* each time, and the (N+1)-th returns the first again.
C6_RoundRobin ==
    cfg.strategy = "LoadBalance" =>
        \A w \in BOOLEAN :
            LET cands == Candidates(w)
                N == Len(cands)
                c == load_balance_counter
            IN  N > 0 =>
                  /\ \A k \in 0..N :
                        /\ NthSelection(c, w, k).ok
                        /\ NthSelection(c, w, k).instance = cands[((c + k) % N) + 1]
                        /\ NthSelection(c, w, k).counter = c + k + 1
                  /\ {NthSelection(c, w, k).instance : k \in 0..(N - 1)}
                        = {cands[j] : j \in 1..N}
                  /\ \A j, k \in 0..(N - 1) :
                        j # k => NthSelection(c, w, j).instance # NthSelection(c, w, k).instance
                  /\ NthSelection(c, w, N).instance = NthSelection(c, w, 0).instance

\* a selection under LoadBalance has just returned the last of two or more
\* healthy candidates, the counter having gone round at least once
C6_Witness ==
    /\ cfg.strategy = "LoadBalance"
    /\ Selected /\ resp.ok
    /\ Len(Candidates(resp.is_write)) >= 2
    /\ load_balance_counter > Len(Candidates(resp.is_write))
    /\ resp.instance = Candidates(resp.is_write)[Len(Candidates(resp.is_write))]

\* C7: under ReadWriteSplit a write selection never returns a read instance nor
\* a read selection a write instance; a healthy mixed instance serves both
\* directions; the instance returned is the first healthy eligible one in
\* registry order.
C7_ReadWriteSplit ==
    (Selected /\ cfg.strategy = "ReadWriteSplit") =>
        /\ resp.ok =>
              /\ cfg.instances[resp.instance] # (IF resp.is_write THEN "read" ELSE "write")
              /\ resp.instance = Min(HealthyEligible(resp.is_write))
        /\ (\E i \in 1..NumInst :
                cfg.instances[i] = "mixed" /\ instance_health[i] = "Healthy") => resp.ok
        /\ HealthyEligible(resp.is_write) # {} => resp.ok

\* a write selection passed over a healthy read instance and took the mixed
\* instance registered after it
C7_Witness ==
    /\ Selected /\ cfg.strategy = "ReadWriteSplit"
    /\ resp.ok /\ resp.is_write /\ resp.instance = 2
    /\ cfg.instances = <<"read", "mixed">>
    /\ instance_health[1] = "Healthy"

\* C8 as claimed: under LoadBalance only instances of exactly the type of the
\* direction are returned, and the selection fails when only mixed instances
\* are healthy.
C8_Claimed_MixedNeverReturned ==
    (Selected /\ cfg.strategy = "LoadBalance") =>
        /\ resp.ok =>
              cfg.instances[resp.instance] = (IF resp.is_write THEN "write" ELSE "read")
        /\ (\A i \in 1..NumInst :
                instance_health[i] = "Healthy" => cfg.instances[i] = "mixed") => ~resp.ok

\* C8 amended: under LoadBalance the instance returned is Healthy and of the
\* type of the direction or mixed, never of the opposite type; a healthy mixed
\* instance is a candidate of both directions, so the selection fails exactly
\* when no instance of the direction's type or of type mixed is Healthy.
C8_LoadBalanceServesMixed ==
    (Selected /\ cfg.strategy = "LoadBalance") =>
        /\ resp.ok =>
              /\ cfg.instances[resp.instance] \in
                    {IF resp.is_write THEN "write" ELSE "read", "mixed"}
              /\ instance_health[resp.instance] = "Healthy"
        /\ resp.ok <=>
              \E i \in 1..NumInst :
                  /\ instance_health[i] = "Healthy"
                  /\ cfg.instances[i] \in {IF resp.is_write THEN "write" ELSE "read", "mixed"}

\* under LoadBalance a selection returned a mixed instance while no instance of
\* the direction's own type was healthy
C8_Witness ==
    /\ Selected /\ cfg.strategy = "LoadBalance" /\ resp.ok
    /\ cfg.instances[resp.instance] = "mixed"
    /\ \A i \in 1..NumInst : instance_health[i] = "Healthy" => cfg.instances[i] = "mixed"

SuccessfulProbe(out) ==
    /\ out.sent
    /\ out.code \in 200..299
    /\ out.body.json /\ out.body.status_t = "string" /\ out.body.status_v = "ok"

\* C10: a probe records Healthy exactly when the call returned a success status
\* and a body whose status member is "ok"; every other outcome records
\* Unhealthy, never Unknown.
C10_ProbeOutcome ==
    resp.op = "perform_health_check" =>
        \A i \in 1..NumInst :
            /\ SuccessfulProbe(resp.probes[i]) => instance_health[i] = "Healthy"
            /\ ~SuccessfulProbe(resp.probes[i]) => instance_health[i] = "Unhealthy"

\* one tick recorded Healthy for a 200 with status ok, and Unhealthy for a 503
\* whose body says ok
C10_Witness ==
    /\ resp.op = "perform_health_check"
    /\ \E i, j \in 1..NumInst :
          /\ SuccessfulProbe(resp.probes[i]) /\ instance_health[i] = "Healthy"
          /\ resp.probes[j].sent /\ resp.probes[j].code = 503
          /\ resp.probes[j].body.status_v = "ok" /\ instance_health[j] = "Unhealthy"

(***************************************************************************)
(* Properties of the service (specification Spec).                         *)
(***************************************************************************)
EncryptRoles == {"encrypt", "mixed"}

DecryptRoles == {"decrypt", "mixed"}

\* the ciphertext of a request's data under the key of its password
SealsRequest(encrypted_data, request) ==
    /\ encrypted_data.form = "sealed"
    /\ encrypted_data.pt = request.data
    /\ encrypted_data.key = generate_key(request.password)

\* the entries of all bucket files, as a set
CacheEntries(files) ==
    UNION {{ParsedLines(files[b].lines)[i] : i \in 1..Len(ParsedLines(files[b].lines))} :
              b \in DOMAIN files}

\* the cache has gained exactly n entries, each the EncryptRecord of the call
\* that just returned
GainedEncryptRecords(n) ==
    /\ CacheCount(cache') = CacheCount(cache) + n
    /\ CacheEntries(cache) \subseteq CacheEntries(cache')
    /\ n > 0 => \E entry \in CacheEntries(cache') :
                    /\ entry.timestamp = now
                    /\ entry.data_type = EncryptCacheData(resp'.request, resp'.encrypted_data)
                    /\ CacheCount(cache) = 0 => CacheEntries(cache') = {entry}

\* the fallback slot holds a record in state Created
SlotCreated(slot) == slot # <<>> /\ slot[1].state = "Created"

\* the step is a call of encrypt returning: every operation but the clock
\* leaves its own name in resp, and the clock alone moves now
EncryptReturned == resp'.op = "encrypt" /\ now' = now

\* select_instance(true) fails for the call that starts now
NoWriteInstance == ~select_instance(load_balance_counter, TRUE).ok

\* C1, as the specification states it: encrypt, on a service whose role
\* permits encryption and when the cipher step succeeded, returns a success
\* response carrying the ciphertext of the request, whatever the backend did.
\* The code returns an error when the backend answers with a success status
\* and a body that is no GenericResponse.
C1_Claimed_AlwaysReturnsCiphertext ==
    (resp.op = "encrypt" /\ cfg.role \in EncryptRoles /\ resp.err # "cipher")
        => (resp.ok /\ SealsRequest(resp.encrypted_data, resp.request))

\* C2, as the specification states it: when encrypt runs (role permitted,
\* cipher succeeded) while select_instance(true) fails, then on return the
\* response carries the ciphertext and no resource id, exactly one new
\* EncryptRecord has been appended to the cache, and the fallback slot holds a
\* record in state Created.  A failed cache write is only logged, and then no
\* entry has been appended.
C2_Claimed_ExactlyOneRecord ==
    [][(EncryptReturned /\ cfg.role \in EncryptRoles /\ resp'.err # "cipher"
          /\ NoWriteInstance)
         => /\ resp'.ok
            /\ SealsRequest(resp'.encrypted_data, resp'.request)
            /\ resp'.resource_id = <<>>
            /\ GainedEncryptRecords(1)
            /\ SlotCreated(test_instance')]_vars

\* C2, amended: when encrypt runs (role permitted, cipher succeeded) while
\* select_instance(true) fails, then on return the response carries the
\* ciphertext and no resource id, create_test_instance has left a record in
\* state Created in the fallback slot, and the cache has gained exactly one
\* EncryptRecord if the cache write succeeded and no entry if it failed (the
\* failure is only logged).
C2_FallbackOnNoWriteInstance ==
    [][(EncryptReturned /\ cfg.role \in EncryptRoles /\ resp'.err # "cipher"
          /\ NoWriteInstance)
         => /\ resp'.ok
            /\ SealsRequest(resp'.encrypted_data, resp'.request)
            /\ resp'.resource_id = <<>>
            /\ GainedEncryptRecords(IF resp'.cache_warned THEN 0 ELSE 1)
            /\ SlotCreated(test_instance')]_vars

\* an encrypt answered through the fallback path: no write instance is
\* healthy, the record is cached and the slot is Created
C2_Witness ==
    /\ resp.op = "encrypt" /\ resp.ok /\ resp.resource_id = <<>>
    /\ NoWriteInstance
    /\ SlotCreated(test_instance) /\ test_instance[1].created_at = now
    /\ \E entry \in CacheEntries(cache) :
          entry.data_type = EncryptCacheData(resp.request, resp.encrypted_data)

\* C3, as the specification states it: a decrypt with resource_id set returns
\* an error only on a role violation or a cipher failure; any failure to
\* select a read instance or to obtain the ciphertext from the backend makes
\* it work on the request's encrypted_data, and it then returns the plaintext
\* sealed under the request's password.  The code returns an error when the
\* backend answers with a success status and a body that is no
\* GenericResponse or carries no data.encrypted_data string.
C3_Claimed_OnlyRoleOrCipherErrors ==
    (resp.op = "decrypt" /\ resp.request.resource_id # <<>>)
        => IF resp.ok
           THEN \E ct \in {resp.request.encrypted_data, StoredCt} :
                    /\ ct.form = "sealed"
                    /\ ct.key = generate_key(resp.request.password)
                    /\ resp.data = ct.pt
           ELSE resp.err \in {"role", "cipher", "cipher_panic"}

(***************************************************************************)
(* Properties of the fallback manager (specification SpecFallback).        *)
(***************************************************************************)
\* the step is a call of create_test_instance returning
CreateReturned == resp'.op = "create_test_instance" /\ now' = now

\* the time to live of a fallback instance
TTL == 172800

C11_WitnessRenewed ==
    /\ resp.op = "create_test_instance"
    /\ resp.record = test_instance
    /\ test_instance[1].created_at = now /\ now > TTL
    /\ test_instance[1].state = "Created"

\* C19, as the specification states it: in every interleaving of
\* periodic_check with calls of create_test_instance, a record is marked
\* Expired only if that record is in the slot, is not yet Expired and
\* now > its expires_at, so every record in state Expired has an expires_at
\* earlier than the current time.  periodic_check tests a copy of the slot
\* and marks, under a lock taken afterwards, whatever record the slot then
\* holds: a record installed in between is marked Expired while it is fresh.
C19_Claimed_ExpiredOnlyPastLifetime ==
    /\ test_instance # <<>>
    /\ test_instance[1].state = "Expired"
    => test_instance[1].expired_at < now

(***************************************************************************)
(* Properties of the cache (specification SpecCache).                      *)
(***************************************************************************)
\* a sequence as a multiset: how often each element occurs
BagOfSeq(seq) ==
    [x \in {seq[i] : i \in DOMAIN seq} |-> Cardinality({i \in DOMAIN seq : seq[i] = x})]

\* a multiset with one more occurrence of e
BagPlus(B, e) ==
    [x \in DOMAIN B \cup {e} |->
        (IF x \in DOMAIN B THEN B[x] ELSE 0) + (IF x = e THEN 1 ELSE 0)]

\* the entries the files hold, as a multiset
StoredBag(files) ==
    BagOfSeq(ReadFiles(files, CHOOSE order \in Orders(DOMAIN files) : TRUE))

\* the buckets of the write times of the entries the files hold
WriteBuckets(files) == {e.timestamp \div update_interval : e \in CacheEntries(files)}

WriteReturned == resp'.op = "write_cache" /\ now' = now

ReadReturned == resp'.op = "read_all_cache" /\ now' = now

SweepReturned == resp'.op = "clean_expired_cache" /\ now' = now

\* the age of a file at the time of the sweep
Age(b) == now - cache[b].mtime

StrategyConstraint(c) ==
    LET n == Len(c.instances)
        Has(types) == \E i \in 1..n : c.instances[i] \in types
    IN  CASE c.strategy = "Single" -> n = 1
          [] c.strategy = "ReadWriteSplit" ->
                Has({"write", "mixed"}) /\ Has({"read", "mixed"})
          [] c.strategy = "LoadBalance" -> n >= 1

\* C14: validate accepts a configuration only if the constraint of its
\* strategy holds (every configuration violating it is rejected), and main
\* does not go on to serve a configuration that validate rejects.
C14_ValidateEnforcesStrategy ==
    /\ (resp.op = "validate" /\ resp.ok) => StrategyConstraint(cfg)
    /\ resp.op = "main" =>
          /\ resp.ok => StrategyConstraint(cfg)
          /\ ~resp.ok => instance_health = <<>>

\* a configuration with a valid role and valid instance types that breaks
\* the constraint of its strategy has been rejected
C14_Witness ==
    /\ resp.op = "validate" /\ ~resp.ok
    /\ cfg.role \in ServiceRoles
    /\ cfg.instances # <<>>
    /\ \A i \in 1..Len(cfg.instances) : cfg.instances[i] \in InstanceTypes
    /\ ~StrategyConstraint(cfg)

\* C18, as the specification states it: for each supported
\* CRUD_API_BACKEND_TYPE (single, read_write_split, load_balance), with a
\* valid role and valid instance types in the environment, the configuration
\* from_env produces passes validate and the service starts.  For "single"
\* from_env builds a write and a read instance under strategy Single, which
\* validate rejects (exactly one instance required).
C18_Claimed_FromEnvPassesValidate ==
    (/\ resp.op = "main"
     /\ resp.request.backend_type \in {"single", "read_write_split", "load_balance"}
     /\ resp.request.role \in ServiceRoles
     /\ \A i \in 1..Len(resp.request.instances) :
            resp.request.instances[i] \in InstanceTypes)
        => resp.ok

(***************************************************************************)
(* Properties of the cipher step of decrypt.                               *)
(***************************************************************************)
\* how often a step occurs among the steps a call performed
Times(calls, step) == Cardinality({i \in 1..Len(calls) : calls[i] = step})

\* decrypt has returned from a call that reached its cipher step
DecryptCiphered == resp.op = "decrypt" /\ Times(resp.calls, "cipher") = 1

\* what the cipher makes of the ciphertext and password of that call
CipherStep == crypto_decrypt(resp.encrypted_data, resp.request.password)

\* C17, as the specification states it: a decrypt whose cipher step fails
\* (wrong password or corrupt ciphertext) returns an error and writes no cache
\* entry, and a decrypt whose cipher step succeeds attempts exactly one cache
\* write.  A ciphertext that decodes to fewer than 12 bytes makes split_at(12)
\* panic: decrypt unwinds instead of returning an error.
C17_Claimed_CipherFailureReturnsError ==
    DecryptCiphered =>
        IF CipherStep.ok
        THEN resp.ok /\ Times(resp.calls, "write_cache") = 1
        ELSE /\ ~resp.ok
             /\ resp.err = "cipher"
             /\ Times(resp.calls, "write_cache") = 0

(***************************************************************************)
(* Properties of the batch operations and of the role check.               *)
(***************************************************************************)
BatchOps == {"batch_encrypt", "batch_decrypt"}

\* a step in which a batch that passed the role check returns
BatchReturned == resp'.op \in BatchOps /\ now' = now /\ resp'.err # "role"

\* the items among the first n whose single-item operation wrote the cache
CacheWriters(results) ==
    {k \in 1..Len(results) : Times(results[k].calls, "write_cache") = 1}

\* C15: batch_encrypt and batch_decrypt run the single-item operation on the
\* items in request order; every item before the last one processed
\* succeeded; if the last one processed failed, the batch returns that
\* failure and no responses, and nothing was done for a later item (the
\* cache gained only what the processed items wrote); if no item failed,
\* every item was processed and the responses are the items' responses, one
\* per request, in request order.
C15_BatchAbortsOnFirstFailure ==
    [][BatchReturned =>
        LET items == resp'.request
            results == resp'.results
            n == Len(results)
        IN  /\ n <= Len(items)
            /\ \A k \in 1..n : /\ results[k].request = items[k].request
                                /\ k < n => results[k].ok
            /\ CacheCount(cache') - CacheCount(cache) = Cardinality(CacheWriters(results))
            /\ IF resp'.ok
               THEN /\ n = Len(items)
                    /\ \A k \in 1..n : results[k].ok
                    /\ resp'.responses = results
               ELSE /\ n >= 1
                    /\ ~results[n].ok
                    /\ resp'.err = results[n].err
                    /\ resp'.responses = <<>>]_vars

\* a batch of two has failed at its first item, after which the second was
\* not processed
C15_Witness ==
    /\ resp.op \in BatchOps
    /\ ~resp.ok
    /\ Len(resp.request) = 2
    /\ Len(resp.results) = 1
    /\ resp.err = "cipher"

\* the operations of the service that check the role
ServiceOps == {"encrypt", "decrypt", "batch_encrypt", "batch_decrypt"}

\* the roles under which an operation is served
PermittedRoles(op) ==
    IF op \in {"encrypt", "batch_encrypt"} THEN {"encrypt", "mixed"}
    ELSE {"decrypt", "mixed"}

\* C16: encrypt and batch_encrypt are rejected with the role error exactly
\* when the role is neither encrypt nor mixed, decrypt and batch_decrypt
\* exactly when it is neither decrypt nor mixed; a rejected call performs no
\* step (no cipher, selection, backend call, cache write or fallback
\* creation) and leaves the counter, the cache and the fallback slot as they
\* were.
C16_RoleRejection ==
    [][(resp'.op \in ServiceOps /\ now' = now) =>
        IF cfg.role \in PermittedRoles(resp'.op)
        THEN resp'.err # "role"
        ELSE /\ ~resp'.ok
             /\ resp'.err = "role"
             /\ resp'.calls = <<>>
             /\ resp'.results = <<>>
             /\ UNCHANGED <<load_balance_counter, cache, test_instance>>]_vars

\* a decrypt has been rejected by a service whose role is encrypt
C16_Witness ==
    /\ resp.op = "decrypt"
    /\ cfg.role = "encrypt"
    /\ resp.err = "role"

(***************************************************************************)
(* Properties of the health table under concurrent readers.                *)
(***************************************************************************)
ReaderOps == {"select_instance", "get_all_instance_status"}

\* a step in which a reader of the health table returns
ReaderReturned == resp'.op \in ReaderOps /\ UNCHANGED <<health_check, now>>

\* the table carries the result of the latest tick for one instance whose
\* status the tick changes and the state from before the tick for another
Mixed(table) ==
    \E i, j \in DOMAIN health_check.new_health_status :
        /\ table[i] = health_check.new_health_status[i]
        /\ table[i] # health_check.before[i]
        /\ table[j] = health_check.before[j]
        /\ table[j] # health_check.new_health_status[j]

\* C20: the table a select_instance or get_all_instance_status reads, while
\* the health monitor runs, is never a mix of the results of a tick and of
\* the state before that tick; get_all_instance_status returns that table.
C20_ReadersSeeWholeTicks ==
    [][ReaderReturned =>
        /\ ~Mixed(instance_health)
        /\ resp'.op = "get_all_instance_status" =>
              /\ Len(resp'.entries) = Len(instance_health)
              /\ \A i \in 1..Len(instance_health) :
                     resp'.entries[i].status = instance_health[i]]_vars

\* a reader has returned the table after a tick that changed two instances
C20_Witness ==
    /\ resp.op = "get_all_instance_status"
    /\ health_check.pc = "idle"
    /\ Len(health_check.new_health_status) = 2
    /\ \A i \in 1..2 : /\ health_check.before[i] # health_check.new_health_status[i]
                        /\ resp.entries[i].status = health_check.new_health_status[i]

\* a step in which a tick of the health monitor completes
TickCompleted == health_check.pc = "applying" /\ health_check'.pc = "idle"

\* C21: when a tick completes, the table holds for every instance the status
\* that tick's probe of it yielded, Healthy or Unhealthy and never Unknown,
\* whatever the table held before the tick.
C21_TickRecordsEveryProbe ==
    [][TickCompleted =>
        /\ Len(instance_health') = NumInst
        /\ Len(health_check.new_health_status) = NumInst
        /\ \A i \in 1..NumInst :
              /\ instance_health'[i] = health_check.new_health_status[i]
              /\ instance_health'[i] \in {"Healthy", "Unhealthy"}]_vars

\* a completed tick has turned a Healthy instance Unhealthy and an Unhealthy
\* one Healthy
C21_Witness ==
    /\ health_check.pc = "idle"
    /\ resp.op = "perform_health_check"
    /\ \E i, j \in DOMAIN health_check.before :
          /\ health_check.before[i] = "Healthy" /\ instance_health[i] = "Unhealthy"
          /\ health_check.before[j] = "Unhealthy" /\ instance_health[j] = "Healthy"

(***************************************************************************)
(* Properties of the life of a fallback record.                            *)
(***************************************************************************)
SlotState(slot) == IF slot = <<>> THEN "NotCreated" ELSE slot[1].state

\* the record a creation at the current time installs
NewRecord == <<TestInstanceConfig(now, now + TTL, "Created")>>

\* C22: the slot never empties again; a record marked Expired is never
\* changed, only replaced, by create_test_instance (called directly or by
\* import_cache_data), with a new Created record whose created_at is the
\* current time; a Created record changes only by being marked Expired or by
\* being replaced with such a new record.
C22_StateMovesForward ==
    [][test_instance' # test_instance =>
        CASE SlotState(test_instance) = "NotCreated" -> test_instance' = NewRecord
          [] SlotState(test_instance) = "Created" ->
                \/ test_instance' = <<[test_instance[1] EXCEPT !.state = "Expired"]>>
                \/ test_instance' = NewRecord
          [] SlotState(test_instance) = "Expired" ->
                /\ test_instance' = NewRecord
                /\ resp'.op \in {"create_test_instance", "import_cache_data"}]_vars

\* create_test_instance found a record marked Expired and left a new one in
\* the slot, created now
C22_Witness ==
    /\ resp.op = "create_test_instance"
    /\ SlotState(resp.found) = "Expired"
    /\ test_instance = NewRecord
    /\ resp.record = test_instance
    /\ resp.found[1].created_at < now

\* a step in which one of the concurrent calls of create_test_instance returns
ConcurrentCreateReturned ==
    \E p \in Callers : create_pc[p] \in {"checking", "installing"} /\ create_pc'[p] = "idle"

\* the slot holds a Created record that has not reached its expired_at
LiveRecord ==
    /\ test_instance # <<>>
    /\ test_instance[1].state = "Created"
    /\ now < test_instance[1].expired_at

\* C23: the slot never holds more than one record; a call of
\* create_test_instance that returns while the slot holds a live (Created,
\* unexpired) record returns that record and leaves the slot as it is,
\* however the calls interleave; every call returns the record the slot holds
\* when it returns.
C23_ConcurrentCreatesShareRecord ==
    [][/\ Len(test_instance') <= 1
       /\ ConcurrentCreateReturned =>
             /\ resp'.record = test_instance'
             /\ LiveRecord => test_instance' = test_instance]_vars

\* a call has returned the record another call created, while a third call
\* already holds the lock
C23_Witness ==
    /\ resp.op = "create_test_instance"
    /\ resp.found # <<>>
    /\ resp.found = resp.record
    /\ resp.record = test_instance
    /\ \E q \in Callers : create_pc[q] = "checking"

(***************************************************************************)
(* Properties of encrypt when the backend call fails.                      *)
(***************************************************************************)
\* the call that just returned selected an instance and its backend call
\* failed: not sent (transport error, timeout) or answered with a status
\* outside 200..299
BackendCallFailed ==
    /\ resp'.backend # <<>>
    /\ ~resp'.backend[1].sent \/ resp'.backend[1].code \notin 200..299

\* C24, as the specification states it: when encrypt has selected an instance
\* and the backend call fails, it appends one EncryptRecord to the cache and
\* returns the ciphertext with no resource id, and the fallback slot is left
\* as it was, with no creation and no replay.  error_for_status turns only
\* 4xx and 5xx into a failure: a 3xx answer is taken as a success and its
\* body parsed, and the request ends in the parse error.
C24_Claimed_BackendFailureCachesOnly ==
    [][(EncryptReturned /\ BackendCallFailed)
         => /\ resp'.ok
            /\ SealsRequest(resp'.encrypted_data, resp'.request)
            /\ resp'.resource_id = <<>>
            /\ GainedEncryptRecords(1)
            /\ test_instance' = test_instance
            /\ Times(resp'.calls, "create_test_instance") = 0
            /\ Times(resp'.calls, "import_cache_data") = 0]_vars

\* the call that just returned ran the cipher and then took a failure path:
\* no write instance could be selected, or the backend call failed
EncryptFailurePath ==
    /\ EncryptReturned
    /\ Times(resp'.calls, "cipher") = 1
    /\ resp'.err # "cipher"
    /\ NoWriteInstance \/ BackendCallFailed

\* step a comes before step b among the steps of a call, each taken once
Before(calls, a, b) ==
    \E i, j \in 1..Len(calls) :
        /\ i < j /\ calls[i] = a /\ calls[j] = b
        /\ Times(calls, a) = 1 /\ Times(calls, b) = 1

\* C25, as the specification states it: on a failure path of encrypt the cache
\* write comes after the cipher step and before the return, and a response is
\* returned only when the entry has been appended to the cache.  A failed
\* write is only logged: the response is returned with nothing appended.
C25_Claimed_ResponseOnlyIfDurable ==
    [][EncryptFailurePath =>
        /\ Before(resp'.calls, "cipher", "write_cache")
        /\ resp'.ok => GainedEncryptRecords(1)]_vars

\* C25, amended: on a failure path of encrypt write_cache is called once,
\* after the cipher step and before the return; when it succeeds the entry of
\* the request is in the cache (appended and flushed) by the time the caller
\* has the response; when it fails the failure is logged, nothing is appended
\* and the same response is returned.
C25_CacheWriteBeforeResponse ==
    [][EncryptFailurePath =>
        /\ Before(resp'.calls, "cipher", "write_cache")
        /\ CacheCount(cache') = CacheCount(cache) + (IF resp'.cache_warned THEN 0 ELSE 1)
        /\ resp'.ok => GainedEncryptRecords(IF resp'.cache_warned THEN 0 ELSE 1)]_vars

\* an encrypt whose backend answered 500 has returned the ciphertext, with
\* the record of the request in the cache
C25_Witness ==
    /\ resp.op = "encrypt" /\ resp.ok /\ ~resp.cache_warned
    /\ resp.backend # <<>> /\ resp.backend[1].code = 500
    /\ \E entry \in CacheEntries(cache) :
          /\ entry.timestamp = now
          /\ entry.data_type = EncryptCacheData(resp.request, resp.encrypted_data)

(***************************************************************************)
(* Properties of a failing cache write inside a request.                   *)
(***************************************************************************)
\* what the caller of encrypt or decrypt receives
Response(r) ==
    [ok |-> r.ok, err |-> r.err, data |-> r.data, resource_id |-> r.resource_id,
     encrypted_data |-> IF r.op = "encrypt" THEN r.encrypted_data ELSE NoCt]

\* C26: in every state of the service, for every request and every outcome
\* of the cipher and of the backend, encrypt and decrypt return to the caller
\* the same response when write_cache fails as when it succeeds.
C26_CacheFailureNotEscalated ==
    /\ \A request \in EncryptRequests, rng \in RngOutcomes, post \in PostOutcomes :
          Response(encrypt(Current, request, rng, post, FALSE).resp)
            = Response(encrypt(Current, request, rng, post, TRUE).resp)
    /\ \A request \in DecryptRequests, get \in GetOutcomes :
          Response(decrypt(Current, request, get, FALSE).resp)
            = Response(decrypt(Current, request, get, TRUE).resp)

\* a decrypt has returned the plaintext although its cache write failed and
\* the cache is still empty
C26_Witness ==
    /\ resp.op = "decrypt" /\ resp.ok /\ resp.cache_warned
    /\ resp.data = "secret"
    /\ CacheCount(cache) = 0

(***************************************************************************)
(* Properties of the cache replay.                                         *)
(***************************************************************************)
\* C27, as the specification states it: an encrypt that finds no write
\* instance while the slot holds a Created record that has not expired
\* reuses that record and does not replay the cache; import_cache_data runs
\* only after a new record has been created.  The code calls
\* import_cache_data whenever create_test_instance returns Ok, and it returns
\* Ok for a reused record as well.
C27_Claimed_ReplayOnlyOnNewRecord ==
    [][(EncryptReturned /\ Times(resp'.calls, "cipher") = 1 /\ resp'.err # "cipher"
          /\ NoWriteInstance /\ LiveRecord)
         => /\ test_instance' = test_instance
            /\ Times(resp'.calls, "import_cache_data") = 0]_vars

(***************************************************************************)
(* Properties of who writes the health table.                              *)
(***************************************************************************)
\* C28: the health table changes only in a tick of the health monitor;
\* select_instance, get_all_instance_status, encrypt and decrypt leave it as
\* it is, also when the backend call of the request failed.
C28_OnlyTicksChangeHealth ==
    [][/\ instance_health' # instance_health => resp'.op = "perform_health_check"
       /\ (resp'.op \in {"select_instance", "get_all_instance_status", "encrypt", "decrypt"}
           /\ resp' # resp)
            => instance_health' = instance_health]_vars

\* an encrypt whose backend call was not answered has returned, and the
\* instance it used is still Healthy and still selected for a write
C28_Witness ==
    /\ resp.op = "encrypt"
    /\ resp.backend # <<>> /\ ~resp.backend[1].sent
    /\ cfg.strategy = "ReadWriteSplit"
    /\ select_instance(load_balance_counter, TRUE).ok
    /\ instance_health[select_instance(load_balance_counter, TRUE).instance] = "Healthy"

(***************************************************************************)
(* Properties of the cache under concurrent writers.                       *)
(***************************************************************************)
\* the entries a caller of write_cache may have handed over
WrittenEntries ==
    {[timestamp |-> t, data_type |-> data_type] :
        t \in WriterTimes, data_type \in {SmallCacheData, LargeCacheData}}

\* a line that is one record as write_cache serialized it, alone on the line
WellFormed(line) == \E e \in WrittenEntries : line = to_string(e)

\* the places of the well-formed lines
WellFormedLines(files) ==
    {q \in UNION {{<<b, i>> : i \in 1..Len(files[b].lines)} : b \in DOMAIN files} :
        WellFormed(files[q[1]].lines[q[2]])}

\* the entry a well-formed line was written from
Written(files, q) == CHOOSE e \in WrittenEntries : to_string(e) = files[q[1]].lines[q[2]]

\* the entries of the well-formed lines, as a multiset
WellFormedBag(files) ==
    [e \in {Written(files, q) : q \in WellFormedLines(files)} |->
        Cardinality({q \in WellFormedLines(files) : Written(files, q) = e})]

\* no call of write_cache is under way
WritersIdle == \A p \in Callers : cache_writers.pc[p] = "idle"

\* C29, as the specification states it: once the concurrent calls of
\* write_cache have returned, the files hold a well-formed record for each
\* call that returned Ok, and read_all returns them all.  Violated: a record
\* of 8 KiB or more reaches the file in one write and its line end in a
\* second one, so the record of another request can land between the two;
\* both records are then on one line, which read_all cannot parse.
C29_Claimed_ConcurrentWritesWhole ==
    WritersIdle
        => /\ Cardinality(WellFormedLines(cache)) >= cache_writers.returned
           /\ \A order \in Orders(DOMAIN cache) :
                 Len(read_all_cache(cache, order, TRUE).entries) >= cache_writers.returned

\* C30: read_all passes over a line that does not parse and goes on: when
\* the files can be read it returns Ok with the entries of all well-formed
\* lines, those of the file with the bad line and those of the other files,
\* and leaves the files as they are (a step that leaves the writers where
\* they stand is a read).
C30_BadLineSkipped ==
    [][(ReadReturned /\ cache_writers' = cache_writers /\ resp'.request.io_ok)
         => /\ resp'.ok
            /\ BagOfSeq(resp'.entries) = WellFormedBag(cache)
            /\ cache' = cache]_vars

\* read_all has returned Ok with two entries from two files, one of them
\* from a file that also has a line of two records run together
C30_Witness ==
    /\ resp.op = "read_all_cache" /\ resp.ok
    /\ Len(resp.entries) = 2
    /\ \E b, c \in DOMAIN cache :
          /\ b # c
          /\ \E i, j \in 1..Len(cache[b].lines) :
                /\ WellFormed(cache[b].lines[i])
                /\ ~is_empty(cache[b].lines[j]) /\ ~from_str(cache[b].lines[j]).ok
          /\ \E i \in 1..Len(cache[c].lines) : WellFormed(cache[c].lines[i])

(***************************************************************************)
(* Properties of what destroys cache entries.                              *)
(***************************************************************************)
\* every line of every file is still where it was
LinesKept ==
    \A b \in DOMAIN cache :
        /\ b \in DOMAIN cache'
        /\ Len(cache'[b].lines) >= Len(cache[b].lines)
        /\ SubSeq(cache'[b].lines, 1, Len(cache[b].lines)) = cache[b].lines

ImportReturned == resp'.op = "import_cache_data" /\ now' = now

DecryptReturned == resp'.op = "decrypt" /\ now' = now

\* C31: entries go only in a sweep.  A replay and a read of the whole cache
\* leave the files as they are, encrypt and decrypt leave every line where
\* it was (they only append), and a replay that read the cache has read
\* every entry the files hold, those of earlier replays included.
C31_OnlySweepDestroys ==
    [][/\ (ImportReturned \/ ReadReturned) => cache' = cache
       /\ (ImportReturned /\ resp'.ok) => BagOfSeq(resp'.entries) = StoredBag(cache)
       /\ (EncryptReturned \/ DecryptReturned) => LinesKept
       /\ ~LinesKept => resp'.op = "clean_expired_cache"]_vars

\* a second replay has read both entries of the cache, the first written
\* before the first replay, and an encrypt has appended after that entry
C31_Witness ==
    /\ resp.op = "import_cache_data" /\ resp.ok
    /\ Len(resp.entries) = 2
    /\ resp.found # <<>>
    /\ \E b \in DOMAIN cache : Len(cache[b].lines) = 2

(***************************************************************************)
(* Properties of validate against select_instance.                         *)
(***************************************************************************)
\* C32, as the specification states it: a configuration that validate
\* accepts can be served: with every instance Healthy, select_instance
\* succeeds for a write and for a read.  Violated: validate counts the
\* instances of Single and LoadBalance without looking at their types, while
\* select_instance takes only mixed instances under Single and only
\* instances of the direction (or mixed) under LoadBalance.
C32_Claimed_ValidatedIsServable ==
    (validate(cfg) /\ \A i \in 1..NumInst : instance_health[i] = "Healthy")
        => /\ select_instance(load_balance_counter, TRUE).ok
           /\ select_instance(load_balance_counter, FALSE).ok

(***************************************************************************)
(* Properties of the rotation under LoadBalance.                           *)
(***************************************************************************)
\* the instances that the selections of one direction in a log returned
Visits(log, w) ==
    LET own == SelectSeq(log, LAMBDA x : x.is_write = w)
    IN  [k \in 1..Len(own) |-> own[k].instance]

\* every n successive visits are of n instances
EachOnce(visits, n) ==
    \A k \in 1..(Len(visits) - n + 1) :
        Cardinality({visits[j] : j \in k..(k + n - 1)}) = n

\* C33, as the specification states it: under LoadBalance, with the health
\* table as the last tick left it and N healthy candidates of a direction,
\* any N successive selections of that direction return each candidate once,
\* whatever selections of the other direction come between them.  Violated:
\* both directions advance the one counter, so a read between two writes
\* moves the index of the next write as well.
C33_Claimed_RotationPerDirection ==
    (cfg.strategy = "LoadBalance" /\ resp.op = "select_instance")
        => \A w \in BOOLEAN :
              EachOnce(Visits(resp.results, w),
                       Len(get_healthy_instances(IF w THEN "write" ELSE "read")))

(***************************************************************************)
(* Properties of the bucket an entry is filed under.                       *)
(***************************************************************************)
\* C34, as the specification states it: an entry in the file of bucket b
\* has a timestamp of bucket b, also when the clock moves between the two
\* readings of one write.  Violated: the entry takes its timestamp from the
\* first reading and the file its number from the second, so a write that
\* starts in the last second of a bucket files its entry under the next.
C34_Claimed_EntryInItsBucket ==
    \A b \in DOMAIN cache :
        \A i \in 1..Len(ParsedLines(cache[b].lines)) :
            ParsedLines(cache[b].lines)[i].timestamp \div update_interval = b

(***************************************************************************)
(* Properties of the sweep beside writes.                                  *)
(***************************************************************************)
\* the sweep has read the modified time of file b and compared it
SweepLooked(b) ==
    /\ sweep.pc = "listing" /\ b \in sweep.entries
    /\ \/ sweep'.pc = "panicked"
       \/ sweep'.pc = "listing" /\ sweep'.entries = sweep.entries \ {b}

\* C35, as the specification states it: with the bucket width within the
\* retention window, no step removes the file of the current bucket, so no
\* entry written beside a sweep goes with it.  Violated: the sweep compares
\* against the time it read at its start; a write in a later second makes
\* the file newer than that, the age wraps and the file counts as expired.
C35_Claimed_CurrentBucketSurvives ==
    [][(update_interval <= retention_time
          /\ get_current_cache_file(now) \in DOMAIN cache)
         => get_current_cache_file(now) \in DOMAIN cache']_vars

\* C36, as the specification states it: a file modified later than the
\* time the sweep read stays, and the sweep goes on.  Violated: the age is
\* an unsigned difference, which panics or wraps.
C36_Claimed_NewerFileRetained ==
    [][\A b \in DOMAIN cache :
          (SweepLooked(b) /\ cache[b].mtime > sweep.current_timestamp)
             => /\ b \in DOMAIN cache'
                /\ sweep'.pc = "listing"]_vars

(***************************************************************************)
(* Properties of the expiry reminder.                                      *)
(***************************************************************************)
\* a tick has marked the slot and called send_wechat_reminder
Reminded == check_pc = "marking" /\ check_pc' = "idle"

\* C37: a reminder goes with the one step that takes the record of the slot
\* from Created to Expired, whether the reminder is sent, fails or is not
\* configured; a tick that finds the record Expired leaves it as it is and
\* calls no reminder.  An Expired record stays Expired until
\* create_test_instance puts a new record in its place.
C37_ReminderOncePerRecord ==
    [][/\ Reminded
            => /\ test_instance # <<>>
               /\ test_instance[1].state = "Created"
               /\ test_instance' = <<[test_instance[1] EXCEPT !.state = "Expired"]>>
               /\ resp'.calls = <<"send_wechat_reminder">>
       /\ (test_instance # <<>> /\ test_instance[1].state = "Expired")
            => /\ ~Reminded
               /\ (resp'.op = "periodic_check" /\ now' = now)
                     => test_instance' = test_instance /\ resp'.calls = <<>>
               /\ test_instance' = test_instance
                     \/ test_instance'[1].state = "Created"]_vars

\* a tick after the one that marked the record has found it Expired, past
\* its lifetime, and has returned without a reminder
C37_Witness ==
    /\ test_instance # <<>> /\ test_instance[1].state = "Expired"
    /\ now > test_instance[1].expired_at + 1
    /\ check_pc = "idle"
    /\ resp.op = "periodic_check" /\ resp.calls = <<>>

(***************************************************************************)
(* Properties of recovery.                                                 *)
(***************************************************************************)
\* instance i is among those select_instance looks at for the direction
Serves(i, w) ==
    IF cfg.strategy = "Single" THEN cfg.instances[i] = "mixed"
    ELSE cfg.instances[i] \in {IF w THEN "write" ELSE "read", "mixed"}

\* in a tick, the probe of instance i succeeds
ProbeSucceeds(i) ==
    HealthTickLive => (i <= NumInst => ProbeStatus(resp'.probes[i]) = "Healthy")

\* instance i is recorded Healthy and the directions it serves are served
Recovered(i) ==
    i <= NumInst
        => /\ instance_health[i] = "Healthy"
           /\ \A w \in BOOLEAN :
                 Serves(i, w) => select_instance(load_balance_counter, w).ok

\* C38: when from some point on every probe of an instance succeeds, then,
\* the health loop ticking on, the instance is from some point on recorded
\* Healthy for good, and select_instance succeeds from then on for every
\* direction the instance serves.
C38_ProbedHealthyRecovers ==
    \A i \in 1..MaxInst : <>[][ProbeSucceeds(i)]_vars => <>[]Recovered(i)

\* an instance whose probe succeeded is recorded Healthy and has been
\* selected, while another instance is recorded Unhealthy
C38_Witness ==
    /\ resp.op = "select_instance" /\ resp.ok
    /\ instance_health[resp.instance] = "Healthy"
    /\ \E i \in 1..NumInst : instance_health[i] = "Unhealthy"

====
